---- MODULE Spec2Model ----
(***************************************************************************)
(* Entity-resolution and confidence-aggregation engine of cannalchemy:     *)
(* strain deduplication (dedup_strains.py), effect-report import           *)
(* (consumer_import.py) and confidence scoring (confidence.py).            *)
(*                                                                         *)
(* Strings are sequences of character codes.  Real numbers are fixed-point *)
(* integers in millionths (1.0 = 1000000).  SQL NULL in an integer column  *)
(* is the empty set, a value n is the singleton {n}.                       *)
(***************************************************************************)
EXTENDS Integers, Sequences, FiniteSets, Bags, TLC

VARIABLES strains, compCount, effects, reports, aliases, run, ret, canonical, mappings

vars == <<strains, compCount, effects, reports, aliases, run, ret, canonical, mappings>>

(***************************************************************************)
(* Bounds of the model.                                                    *)
(***************************************************************************)
MaxNames == 5
MaxStrains == 3
MaxComp == 1
MaxDedupReports == 1
MaxReports == 3
MaxVotes == 2

(***************************************************************************)
(* Generic helpers.                                                        *)
(***************************************************************************)
Min(a, b) == IF a <= b THEN a ELSE b

Range(s) == {s[i] : i \in 1..Len(s)}

\* SQL binary collation: byte-wise lexicographic order, a proper prefix first.
RECURSIVE LexLess(_, _)
LexLess(a, b) ==
    IF b = <<>> THEN FALSE
    ELSE IF a = <<>> THEN TRUE
    ELSE IF Head(a) # Head(b) THEN Head(a) < Head(b)
    ELSE LexLess(Tail(a), Tail(b))

\* ORDER BY over a set of distinct strings: position = 1 + number of smaller ones.
SortNames(S) ==
    [k \in 1..Cardinality(S) |->
        CHOOSE n \in S : Cardinality({m \in S : LexLess(m, n)}) = k - 1]

(***************************************************************************)
(* rapidfuzz fuzz.ratio: normalized Indel similarity                       *)
(*   100 * (1 - (|a|+|b|-2*LCS(a,b)) / (|a|+|b|)) = 200*LCS / (|a|+|b|)    *)
(* kept as an exact fraction num/den.                                      *)
(***************************************************************************)
RECURSIVE LCS(_, _)
LCS(a, b) ==
    IF a = <<>> \/ b = <<>> THEN 0
    ELSE IF Head(a) = Head(b) THEN 1 + LCS(Tail(a), Tail(b))
    ELSE LET x == LCS(Tail(a), b)
             y == LCS(a, Tail(b))
         IN  IF x >= y THEN x ELSE y

Ratio(a, b) ==
    IF Len(a) + Len(b) = 0 THEN [num |-> 100, den |-> 1]
    ELSE [num |-> 200 * LCS(a, b), den |-> Len(a) + Len(b)]

ScoreGreater(s, t) == s.num * t.den > t.num * s.den

ScoreAtLeast(s, cutoff) == s.num >= cutoff * s.den

\* mutant: the cutoff excludes a score equal to it
ExtractStrictCutoff(query, choices, cutoff, limit) ==
    LET score == [i \in 1..Len(choices) |-> Ratio(query, choices[i])]
        cand == {i \in 1..Len(choices) : score[i].num > cutoff * score[i].den}
        Better(i, j) ==
            \/ ScoreGreater(score[i], score[j])
            \/ /\ ~ScoreGreater(score[j], score[i])
               /\ i < j
        pos(i) == 1 + Cardinality({j \in cand : Better(j, i)})
    IN  [k \in 1..Min(limit, Cardinality(cand)) |->
            choices[CHOOSE i \in cand : pos(i) = k]]

(***************************************************************************)
(* rapidfuzz process.extract(query, choices, scorer=fuzz.ratio,            *)
(* score_cutoff, limit): the choices scoring >= cutoff, best score first,  *)
(* equal scores in order of their index in choices, at most limit of them. *)
(* The result is the sequence of matched names.                            *)
(***************************************************************************)
Extract(query, choices, cutoff, limit) ==
    LET score == [i \in 1..Len(choices) |-> Ratio(query, choices[i])]
        cand == {i \in 1..Len(choices) : ScoreAtLeast(score[i], cutoff)}
        Better(i, j) ==
            \/ ScoreGreater(score[i], score[j])
            \/ /\ ~ScoreGreater(score[j], score[i])
               /\ i < j
        pos(i) == 1 + Cardinality({j \in cand : Better(j, i)})
    IN  [k \in 1..Min(limit, Cardinality(cand)) |->
            choices[CHOOSE i \in cand : pos(i) = k]]

(***************************************************************************)
(* Union-find over a name-keyed parent map.                                *)
(***************************************************************************)
\* _find_root with path halving; returns the compressed map and the root.
RECURSIVE FindRoot(_, _)
FindRoot(parent, name) ==
    IF parent[name] = name THEN [parent |-> parent, root |-> name]
    ELSE LET p2 == [parent EXCEPT ![name] = parent[parent[name]]]
         IN  FindRoot(p2, p2[name])

\* mutant: the rank of the new root is never raised
UnionNoRankBump(uf, a, b) ==
    LET fa == FindRoot(uf.parent, a)
        fb == FindRoot(fa.parent, b)
        swap == uf.rank[fa.root] < uf.rank[fb.root]
        ra == IF swap THEN fb.root ELSE fa.root
        rb == IF swap THEN fa.root ELSE fb.root
    IN  IF fa.root = fb.root THEN [parent |-> fb.parent, rank |-> uf.rank]
        ELSE [parent |-> [fb.parent EXCEPT ![rb] = ra], rank |-> uf.rank]

\* _union by rank; uf = [parent, rank].
Union(uf, a, b) ==
    LET fa == FindRoot(uf.parent, a)
        fb == FindRoot(fa.parent, b)
        swap == uf.rank[fa.root] < uf.rank[fb.root]
        ra == IF swap THEN fb.root ELSE fa.root
        rb == IF swap THEN fa.root ELSE fb.root
    IN  IF fa.root = fb.root THEN [parent |-> fb.parent, rank |-> uf.rank]
        ELSE [parent |-> [fb.parent EXCEPT ![rb] = ra],
              rank |-> IF uf.rank[ra] = uf.rank[rb]
                       THEN [uf.rank EXCEPT ![ra] = @ + 1]
                       ELSE uf.rank]

\* for match_name, score, _idx in matches: _union(parent, rank, name, match_name)
RECURSIVE UnionMatches(_, _, _)
UnionMatches(uf, name, matches) ==
    IF matches = <<>> THEN uf
    ELSE UnionMatches(Union(uf, name, Head(matches)), name, Tail(matches))

\* for i, name in enumerate(names): compare against names[i+1:]
RECURSIVE CompareLoop(_, _, _, _, _)
CompareLoop(uf, names, i, threshold, limit) ==
    IF i > Len(names) THEN uf
    ELSE LET choices == SubSeq(names, i + 1, Len(names))
             matches == Extract(names[i], choices, threshold, limit)
         IN  CompareLoop(UnionMatches(uf, names[i], matches), names, i + 1, threshold, limit)

\* clusters.setdefault(root, []).append(name): a dict in insertion order,
\* kept as a sequence of [root, members].
AppendToCluster(clusters, root, name) ==
    IF \E k \in 1..Len(clusters) : clusters[k].root = root
    THEN [k \in 1..Len(clusters) |->
            IF clusters[k].root = root
            THEN [clusters[k] EXCEPT !.members = Append(@, name)]
            ELSE clusters[k]]
    ELSE Append(clusters, [root |-> root, members |-> <<name>>])

RECURSIVE CollectLoop(_, _, _, _)
CollectLoop(parent, names, i, clusters) ==
    IF i > Len(names) THEN clusters
    ELSE LET f == FindRoot(parent, names[i])
         IN  CollectLoop(f.parent, names, i + 1, AppendToCluster(clusters, f.root, names[i]))

\* mutant: every group is returned, singletons included
RECURSIVE FilterClustersAll(_)
FilterClustersAll(clusters) ==
    IF clusters = <<>> THEN <<>>
    ELSE <<Head(clusters).members>> \o FilterClustersAll(Tail(clusters))

\* [c for c in clusters.values() if len(c) >= 2]
RECURSIVE FilterClusters(_)
FilterClusters(clusters) ==
    IF clusters = <<>> THEN <<>>
    ELSE IF Len(Head(clusters).members) >= 2
         THEN <<Head(clusters).members>> \o FilterClusters(Tail(clusters))
         ELSE FilterClusters(Tail(clusters))

\* The clustering of an already fetched list of names.
ClusterNames(names, threshold, limit) ==
    IF Len(names) < 2 THEN <<>>
    ELSE LET uf0 == [parent |-> [n \in Range(names) |-> n],
                     rank |-> [n \in Range(names) |-> 0]]
             uf == CompareLoop(uf0, names, 1, threshold, limit)
         IN  FilterClusters(CollectLoop(uf.parent, names, 1, <<>>))

\* mutant: the distinct names in insertion order, no ORDER BY
RECURSIVE DistinctInOrder(_, _)
DistinctInOrder(table, seen) ==
    IF table = <<>> THEN seen
    ELSE IF Head(table).nn \in Range(seen) THEN DistinctInOrder(Tail(table), seen)
    ELSE DistinctInOrder(Tail(table), Append(seen, Head(table).nn))

FetchNamesUnsorted(table) == DistinctInOrder(table, <<>>)

\* SELECT DISTINCT normalized_name FROM strains ORDER BY normalized_name
FetchNames(table) == SortNames({table[i].nn : i \in 1..Len(table)})

\* find_duplicate_clusters(conn, threshold, limit_per_query) over a strains table.
FindDuplicateClustersIn(table, threshold, limit) ==
    ClusterNames(FetchNames(table), threshold, limit)

(***************************************************************************)
(* Store contents.                                                         *)
(*   strains   : the strains table in insertion order, id = position       *)
(*   compCount : number of strain_compositions rows per strain id          *)
(*   effects   : the effects table (names) in insertion order, id = pos.   *)
(*   reports   : the effect_reports rows                                   *)
(*   aliases   : the strain_aliases rows, a bag (rows carry no key here)   *)
(*   canonical : the canonical_effects table in insertion order, id = pos. *)
(*   mappings  : the effect_mappings table in insertion order              *)
(*   run       : position of a run_deduplication call                      *)
(*   ret       : the last completed call and what it returned              *)
(***************************************************************************)
\* again: the call repeats the call before it (same argument, nothing in between)
NoRet == [op |-> "none", arg |-> <<>>, val |-> <<>>, cid |-> 0, again |-> FALSE]

IdleRun == [pc |-> "idle", threshold |-> 0, clusters |-> <<>>, i |-> 0, before |-> 0]

StrainIds == 1..Len(strains)

(***************************************************************************)
(* Ingestion: strains and compositions.                                    *)
(***************************************************************************)
\* INSERT OR IGNORE INTO strains ... UNIQUE(normalized_name, source)
InsertStrain(nn, src) ==
    /\ run.pc = "idle"
    /\ ~\E i \in StrainIds : strains[i].nn = nn /\ strains[i].src = src
    /\ strains' = Append(strains, [nn |-> nn, src |-> src])
    /\ compCount' = Append(compCount, 0)
    /\ ret' = NoRet
    /\ UNCHANGED <<effects, reports, aliases, run, canonical, mappings>>

RECURSIVE SumSeq(_)
SumSeq(s) == IF s = <<>> THEN 0 ELSE Head(s) + SumSeq(Tail(s))

\* INSERT OR IGNORE INTO strain_compositions (one more row for the strain)
InsertComposition(id) ==
    /\ run.pc = "idle"
    /\ id \in StrainIds
    /\ SumSeq(compCount) < MaxComp
    /\ compCount' = [compCount EXCEPT ![id] = @ + 1]
    /\ ret' = NoRet
    /\ UNCHANGED <<strains, effects, reports, aliases, run, canonical, mappings>>

(***************************************************************************)
(* consumer_import.py                                                      *)
(***************************************************************************)
\* _ensure_effect_exists: the id of the effects row of that name, created if absent.
EffectId(table, name) == CHOOSE k \in 1..Len(table) : table[k] = name

EnsureEffectExists(table, name) ==
    IF \E k \in 1..Len(table) : table[k] = name
    THEN [effects |-> table, id |-> EffectId(table, name)]
    ELSE [effects |-> Append(table, name), id |-> Len(table) + 1]

\* mutant: the unique key leaves out the source
InsertReportIgnoredAnySource(rows, strain_id, effect_id, source) ==
    \E r \in rows : r.strain_id = strain_id /\ r.effect_id = effect_id

\* INSERT OR IGNORE INTO effect_reports ... VALUES (?, ?, ?, 1.0, ?)
\* under UNIQUE(strain_id, effect_id, source); rowcount is 1 when a row was added.
InsertReportIgnored(rows, strain_id, effect_id, source) ==
    \E r \in rows : r.strain_id = strain_id /\ r.effect_id = effect_id /\ r.source = source

\* mutant: the confidence literal on a 0-100 scale
InsertReportPercent(rows, strain_id, effect_id, votes, source) ==
    IF \E r \in rows : r.strain_id = strain_id /\ r.effect_id = effect_id /\ r.source = source
    THEN rows
    ELSE rows \cup {[strain_id |-> strain_id, effect_id |-> effect_id, source |-> source,
                     report_count |-> votes, confidence |-> 100000000]}

InsertReport(rows, strain_id, effect_id, votes, source) ==
    IF InsertReportIgnored(rows, strain_id, effect_id, source) THEN rows
    ELSE rows \cup {[strain_id |-> strain_id, effect_id |-> effect_id, source |-> source,
                     report_count |-> votes, confidence |-> 1000000]}

\* the loop of import_effects_for_strain over the list of effects
RECURSIVE ImportLoop(_, _, _, _)
ImportLoop(st, strain_id, effs, source) ==
    IF effs = <<>> THEN st
    ELSE LET e == EnsureEffectExists(st.effects, Head(effs).canonical_name)
             ignored == InsertReportIgnored(st.reports, strain_id, e.id, source)
             st2 == [effects |-> e.effects,
                     reports |-> InsertReport(st.reports, strain_id, e.id, Head(effs).votes, source),
                     inserted |-> IF ignored THEN st.inserted ELSE st.inserted + 1]
         IN  ImportLoop(st2, strain_id, Tail(effs), source)

\* import_effects_for_strain(conn, strain_id, effects, source)
ImportEffectsForStrain(strain_id, effs, source, maxRows) ==
    /\ run.pc = "idle"
    /\ strain_id \in StrainIds
    /\ LET st == ImportLoop([effects |-> effects, reports |-> reports, inserted |-> 0],
                            strain_id, effs, source)
       IN  /\ Cardinality(st.reports) <= maxRows
           /\ effects' = st.effects
           /\ reports' = st.reports
           /\ ret' = [op |-> "import", arg |-> strain_id, val |-> st.inserted, cid |-> 0,
                     again |-> FALSE]
    /\ UNCHANGED <<strains, compCount, aliases, run, canonical, mappings>>

(***************************************************************************)
(* confidence.py                                                           *)
(***************************************************************************)
\* log1p(n) in thousandths, round(1000 * ln(1 + n)), for n = 1..8
Log1pMilli == <<693, 1099, 1386, 1609, 1792, 1946, 2079, 2197>>

\* SELECT COUNT(DISTINCT source) ... GROUP BY strain_id, effect_id
SourceCount(rows, strain_id, effect_id) ==
    Cardinality({r.source : r \in {q \in rows : q.strain_id = strain_id /\ q.effect_id = effect_id}})

\* SELECT MAX(report_count) FROM effect_reports WHERE report_count > 0, 0 if none
MaxVotesOf(rows) ==
    LET pos == {v \in UNION {r.report_count : r \in rows} : v > 0}
    IN  IF pos = {} THEN 0 ELSE CHOOSE m \in pos : \A v \in pos : v <= m

\* mutant: the source bonus is not capped at two extra sources
BaseScoreUncapped(n_sources) == 400000 + (n_sources - 1) * 200000

\* mutant: the source bonus counts the first source too, min(n_sources, 2)
BaseScoreFromOne(n_sources) == 400000 + Min(n_sources, 2) * 200000

\* 0.4 + min(n_sources - 1, 2) * 0.2
BaseScore(n_sources) == 400000 + Min(n_sources - 1, 2) * 200000

\* mutant: the ratio upside down, log1p(max_votes) / log1p(report_count)
VoteBonusInverted(report_count, max_votes) ==
    (Log1pMilli[max_votes] * 200000) \div Log1pMilli[report_count]

\* mutant: votes weigh 0.3
VoteBonusHeavy(report_count, max_votes) ==
    (Log1pMilli[report_count] * 300000) \div Log1pMilli[max_votes]

\* log1p(report_count) / log1p(max_votes) * 0.2
VoteBonus(report_count, max_votes) ==
    (Log1pMilli[report_count] * 200000) \div Log1pMilli[max_votes]

\* if max_votes > 0 and report_count and report_count > 0
HasVoteBonus(report_count, max_votes) ==
    /\ max_votes > 0
    /\ report_count # {}
    /\ \A v \in report_count : v # 0 /\ v > 0

\* the confidence written for one row
RowConfidence(n_sources, report_count, max_votes) ==
    LET base == BaseScore(n_sources)
        conf == IF HasVoteBonus(report_count, max_votes)
                THEN base + VoteBonus(CHOOSE v \in report_count : TRUE, max_votes)
                ELSE base
    IN  Min(conf, 1000000)

\* mutant: the UPDATE also writes report_count back, NULL stored as 0
ComputeConfidenceScoresCountWritten ==
    /\ run.pc = "idle"
    /\ LET max_votes == MaxVotesOf(reports)
       IN  reports' = {[r EXCEPT !.confidence =
                            RowConfidence(SourceCount(reports, r.strain_id, r.effect_id),
                                          r.report_count, max_votes),
                                 !.report_count = IF @ = {} THEN {0} ELSE @] : r \in reports}
    /\ ret' = [op |-> "confidence", arg |-> <<>>, val |-> Cardinality(reports), cid |-> 0,
               again |-> ret.op = "confidence"]
    /\ UNCHANGED <<strains, compCount, effects, aliases, run, canonical, mappings>>

\* mutant: incremental, only the rows still at the import default 1.0 are scored
ComputeConfidenceScoresIncremental ==
    /\ run.pc = "idle"
    /\ LET max_votes == MaxVotesOf(reports)
       IN  reports' = {IF r.confidence = 1000000
                       THEN [r EXCEPT !.confidence =
                                RowConfidence(SourceCount(reports, r.strain_id, r.effect_id),
                                              r.report_count, max_votes)]
                       ELSE r : r \in reports}
    /\ ret' = [op |-> "confidence", arg |-> <<>>,
               val |-> Cardinality({r \in reports : r.confidence = 1000000}), cid |-> 0,
               again |-> ret.op = "confidence"]
    /\ UNCHANGED <<strains, compCount, effects, aliases, run, canonical, mappings>>

\* compute_confidence_scores(conn)
ComputeConfidenceScores ==
    /\ run.pc = "idle"
    /\ LET max_votes == MaxVotesOf(reports)
       IN  reports' = {[r EXCEPT !.confidence =
                            RowConfidence(SourceCount(reports, r.strain_id, r.effect_id),
                                          r.report_count, max_votes)] : r \in reports}
    /\ ret' = [op |-> "confidence", arg |-> <<>>, val |-> Cardinality(reports), cid |-> 0,
               again |-> ret.op = "confidence"]
    /\ UNCHANGED <<strains, compCount, effects, aliases, run, canonical, mappings>>

(***************************************************************************)
(* dedup_strains.py: merge_strain_cluster                                  *)
(***************************************************************************)
\* COALESCE(comp.cnt, 0) + COALESCE(eff.cnt, 0) AS richness
Richness(id) == compCount[id] + Cardinality({r \in reports : r.strain_id = id})

\* mutant: ties ordered by id DESC
RowBeforeIdDesc(i, j) ==
    \/ Richness(i) > Richness(j)
    \/ Richness(i) = Richness(j) /\ i > j

\* ORDER BY richness DESC, s.id ASC
RowBefore(i, j) ==
    \/ Richness(i) > Richness(j)
    \/ Richness(i) = Richness(j) /\ i < j

\* the ids of the strains WHERE normalized_name IN (cluster), in query order
RankedRows(cluster) ==
    LET ids == {i \in StrainIds : strains[i].nn \in Range(cluster)}
    IN  [k \in 1..Cardinality(ids) |->
            CHOOSE i \in ids : Cardinality({j \in ids : RowBefore(j, i)}) = k - 1]

\* strain_aliases is unique on alias_strain_id
AliasKeyTaken(rows, alias_id) == \E a \in BagToSet(rows) : a.alias_strain_id = alias_id

\* mutant: INSERT OR REPLACE, the row of an aliased strain is retargeted
InsertOrReplaceAlias(rows, alias_id, canonical_id) ==
    LET kept == {a \in BagToSet(rows) : a.alias_strain_id # alias_id}
    IN  [a \in kept |-> rows[a]]
        (+) SetToBag({[alias_strain_id |-> alias_id,
                       canonical_strain_id |-> canonical_id,
                       match_score |-> 100]})

\* mutant: plain INSERT with nothing ignored
InsertAliasAlways(rows, alias_id, canonical_id) ==
    rows (+) SetToBag({[alias_strain_id |-> alias_id,
                        canonical_strain_id |-> canonical_id,
                        match_score |-> 100]})

\* INSERT OR IGNORE INTO strain_aliases (alias_strain_id, canonical_strain_id, match_score)
InsertOrIgnoreAlias(rows, alias_id, canonical_id) ==
    IF AliasKeyTaken(rows, alias_id) THEN rows
    ELSE rows (+) SetToBag({[alias_strain_id |-> alias_id,
                              canonical_strain_id |-> canonical_id,
                              match_score |-> 100]})

\* for strain_id, norm_name, _richness in rows: skip the canonical, alias the rest
RECURSIVE AliasLoop(_, _, _)
AliasLoop(rows, ranked, canonical_id) ==
    IF ranked = <<>> THEN rows
    ELSE IF Head(ranked) = canonical_id THEN AliasLoop(rows, Tail(ranked), canonical_id)
    ELSE AliasLoop(InsertOrIgnoreAlias(rows, Head(ranked), canonical_id),
                   Tail(ranked), canonical_id)

\* merge_strain_cluster(conn, cluster): the alias table afterwards, the returned
\* canonical name ("" is <<>>) and the canonical id (0 when none was selected).
MergeResult(rows, cluster) ==
    IF Len(cluster) < 2
    THEN [aliases |-> rows, name |-> IF cluster # <<>> THEN cluster[1] ELSE <<>>, cid |-> 0]
    ELSE LET ranked == RankedRows(cluster)
         IN  IF ranked = <<>> THEN [aliases |-> rows, name |-> <<>>, cid |-> 0]
             ELSE [aliases |-> AliasLoop(rows, ranked, ranked[1]),
                   name |-> strains[ranked[1]].nn,
                   cid |-> ranked[1]]

MergeStrainCluster(cluster) ==
    /\ run.pc = "idle"
    /\ LET res == MergeResult(aliases, cluster)
       IN  /\ aliases' = res.aliases
           /\ ret' = [op |-> "merge", arg |-> cluster, val |-> res.name, cid |-> res.cid,
                      again |-> ret.op = "merge" /\ ret.arg = cluster]
    /\ UNCHANGED <<strains, compCount, effects, reports, run, canonical, mappings>>

(***************************************************************************)
(* dedup_strains.py: find_duplicate_clusters and run_deduplication         *)
(***************************************************************************)
LimitPerQuery == 3

FindDuplicateClusters(threshold, limit) ==
    /\ run.pc = "idle"
    /\ ret' = [op |-> "find", arg |-> threshold,
               val |-> FindDuplicateClustersIn(strains, threshold, limit), cid |-> 0,
               again |-> FALSE]
    /\ UNCHANGED <<strains, compCount, effects, reports, aliases, run, canonical, mappings>>

\* clusters = find_duplicate_clusters(conn, threshold); aliases_before = COUNT(*)
RunStart(threshold) ==
    /\ run.pc = "idle"
    /\ run' = [pc |-> "merging", threshold |-> threshold,
               clusters |-> FindDuplicateClustersIn(strains, threshold, LimitPerQuery),
               i |-> 1, before |-> BagCardinality(aliases)]
    /\ UNCHANGED <<strains, compCount, effects, reports, aliases, ret, canonical, mappings>>

\* for cluster in clusters: merge_strain_cluster(conn, cluster)   (commits)
RunMerge ==
    /\ run.pc = "merging"
    /\ run.i <= Len(run.clusters)
    /\ aliases' = MergeResult(aliases, run.clusters[run.i]).aliases
    /\ run' = [run EXCEPT !.i = @ + 1]
    /\ UNCHANGED <<strains, compCount, effects, reports, ret, canonical, mappings>>

\* aliases_after = COUNT(*); return the stats
RunFinish ==
    /\ run.pc = "merging"
    /\ run.i > Len(run.clusters)
    /\ ret' = [op |-> "run", arg |-> run.threshold,
               val |-> [clusters_found |-> Len(run.clusters),
                        aliases_created |-> BagCardinality(aliases) - run.before],
               cid |-> 0, again |-> ret.op = "run" /\ ret.arg = run.threshold]
    /\ run' = IdleRun
    /\ UNCHANGED <<strains, compCount, effects, reports, aliases, canonical, mappings>>

(***************************************************************************)
(* Inputs.  Names: "ab", "abc", "abd", "abe", "abf", "gh", "ghi".           *)
(***************************************************************************)
NameUniverse ==
    {<<1, 2>>, <<1, 2, 3>>, <<1, 2, 4>>, <<1, 2, 5>>, <<1, 2, 6>>, <<7, 8>>, <<7, 8, 9>>}

DedupNames == {<<1, 2>>, <<1, 2, 3>>, <<1, 2, 4>>}

\* three names from one source and a second-source row of one of them
DedupRows ==
    {[nn |-> n, src |-> "a"] : n \in DedupNames} \cup {[nn |-> <<1, 2>>, src |-> "b"]}

Thresholds == {60, 80}

EmptyStore ==
    /\ strains = <<>>
    /\ compCount = <<>>
    /\ effects = <<>>
    /\ reports = {}
    /\ aliases = EmptyBag
    /\ run = IdleRun
    /\ ret = NoRet
    /\ canonical = <<>>
    /\ mappings = <<>>

(***************************************************************************)
(* SpecCluster: find_duplicate_clusters over stores of distinct names.     *)
(***************************************************************************)
ClusterInsert ==
    \E nn \in NameUniverse : Len(strains) < MaxNames /\ InsertStrain(nn, "a")

ClusterFind ==
    \E t \in Thresholds : FindDuplicateClusters(t, LimitPerQuery)

NextCluster == ClusterInsert \/ ClusterFind

SpecCluster == EmptyStore /\ [][NextCluster]_vars

(***************************************************************************)
(* Spec: deduplication runs interleaved with ingestion.                    *)
(***************************************************************************)
DedupInsert ==
    \E row \in DedupRows :
        Len(strains) < MaxStrains /\ InsertStrain(row.nn, row.src)

DedupComposition == \E id \in StrainIds : InsertComposition(id)

DedupImport ==
    \E id \in StrainIds :
        ImportEffectsForStrain(id, <<[canonical_name |-> "relaxed", votes |-> {1}]>>,
                               "leafly", MaxDedupReports)

\* direct calls hand over any list of two or more names
DedupMerge ==
    \E S \in {T \in SUBSET DedupNames : Cardinality(T) >= 2} :
        MergeStrainCluster(SortNames(S))

DedupRunStart == \E t \in Thresholds : RunStart(t)

Next ==
    \/ DedupInsert
    \/ DedupComposition
    \/ DedupImport
    \/ DedupMerge
    \/ DedupRunStart
    \/ RunMerge
    \/ RunFinish

Spec == EmptyStore /\ [][Next]_vars

(***************************************************************************)
(* SpecRuns: ingestion and run_deduplication only, as cleaning.py calls it. *)
(***************************************************************************)
NextRuns ==
    \/ DedupInsert
    \/ DedupComposition
    \/ DedupImport
    \/ DedupRunStart
    \/ RunMerge
    \/ RunFinish

SpecRuns == EmptyStore /\ [][NextRuns]_vars

(***************************************************************************)
(* SpecConf: report import and confidence scoring for one strain.          *)
(***************************************************************************)
EffectNames == {"relaxed", "happy"}

Sources == {"leafly", "allbud", "strain-tracker"}

\* votes of an imported effect: NULL, negative, zero, positive
VoteValues == {{}, {-1}} \cup {{v} : v \in 0..MaxVotes}

\* lists of effects handed to one import: one effect with any votes, or two
\* effects (possibly the same one twice) with the default of 0 votes
EffectLists ==
    {<<[canonical_name |-> n, votes |-> v]>> : n \in EffectNames, v \in VoteValues}
    \cup {<<[canonical_name |-> n, votes |-> {0}], [canonical_name |-> m, votes |-> {0}]>> :
            n \in EffectNames, m \in EffectNames}

OneStrain ==
    /\ strains = <<[nn |-> <<1, 2>>, src |-> "a"]>>
    /\ compCount = <<0>>
    /\ aliases = EmptyBag
    /\ run = IdleRun
    /\ ret = NoRet
    /\ canonical = <<>>
    /\ mappings = <<>>

OneStrainStore == OneStrain /\ effects = <<>> /\ reports = {}

ConfImport ==
    \E effs \in EffectLists, source \in Sources :
        ImportEffectsForStrain(1, effs, source, MaxReports)

NextConf == ConfImport \/ ComputeConfidenceScores

SpecConf == OneStrainStore /\ [][NextConf]_vars

(***************************************************************************)
(* SpecScore: one compute_confidence_scores run over a freshly imported    *)
(* table.  "relaxed" (effect 1) is reported by up to four sources, "happy" *)
(* (effect 2) by up to three, each row with 0..MaxVotes votes.             *)
(***************************************************************************)
ScoreSlots ==
    {[effect_id |-> 1, source |-> s] : s \in Sources \cup {"reviews"}}
    \cup {[effect_id |-> 2, source |-> s] : s \in Sources}

\* a table: for every slot no row ({}) or the votes of its row
ScoreTables == [ScoreSlots -> {{}} \cup {{v} : v \in 0..MaxVotes}]

TableRows(t) ==
    {[strain_id |-> 1, effect_id |-> sl.effect_id, source |-> sl.source,
      report_count |-> t[sl], confidence |-> 1000000] : sl \in {x \in ScoreSlots : t[x] # {}}}

ImportedStore ==
    /\ OneStrain
    /\ effects = <<"relaxed", "happy">>
    /\ \E t \in ScoreTables : reports = TableRows(t)

NextScore == ComputeConfidenceScores

SpecScore == ImportedStore /\ [][NextScore]_vars

(***************************************************************************)
(* Claims about merge_strain_cluster and run_deduplication.                *)
(***************************************************************************)
AliasRows == BagToSet(aliases)

ClusterMembers(cluster) == {i \in StrainIds : strains[i].nn \in Range(cluster)}

\* C1: in every state reached by deduplication runs and ingestion, no strain
\* that is the canonical_strain_id of an alias row is the alias_strain_id of a row.
C1_NoAliasToAlias ==
    \A a \in AliasRows, b \in AliasRows : a.canonical_strain_id # b.alias_strain_id

\* C2: after any sequence of merges every strain id is the alias_strain_id of at
\* most one row, and a row once written keeps its target: no step removes or
\* retargets an existing row, a later insert for an aliased strain is ignored.
C2_AliasUniqueFirstKept ==
    [][/\ \A a \in AliasRows : BagIn(a, aliases')
       /\ \A a \in BagToSet(aliases') :
            /\ CopiesIn(a, aliases') = 1
            /\ \A b \in BagToSet(aliases') :
                 a.alias_strain_id = b.alias_strain_id => a = b]_vars

\* C2 witness: a merge chose canonical ret.cid for a cluster holding a strain
\* that an earlier merge had aliased to another canonical; that row is kept.
C2_Witness ==
    /\ ret.op = "merge"
    /\ ret.cid # 0
    /\ \E a \in AliasRows :
         /\ a.alias_strain_id \in ClusterMembers(ret.arg)
         /\ a.alias_strain_id # ret.cid
         /\ a.canonical_strain_id # ret.cid

\* C3: a second merge_strain_cluster call on the same cluster over unchanged
\* data returns the same canonical name and leaves strain_aliases as it was, and
\* a second run_deduplication over an unchanged store reports aliases_created = 0.
C3_MergeIdempotent ==
    [][/\ (/\ run.pc = "idle" /\ run'.pc = "idle"
           /\ ret'.op = "merge" /\ ret'.again)
          => (aliases' = aliases /\ ret'.val = ret.val /\ ret'.cid = ret.cid)
       /\ (/\ run.pc = "merging" /\ run'.pc = "idle"
           /\ ret'.op = "run" /\ ret'.again)
          => (/\ ret'.val.aliases_created = 0
              /\ ret'.val.clusters_found = ret.val.clusters_found
              /\ aliases' = aliases)]_vars

\* C3 witness: a repeated merge that selected a canonical and left alias rows,
\* and (separately reachable) a repeated run; the first is required here.
C3_Witness ==
    /\ ret.op = "merge"
    /\ ret.again
    /\ ret.cid # 0
    /\ \E a \in AliasRows :
         a.canonical_strain_id = ret.cid /\ a.alias_strain_id \in ClusterMembers(ret.arg)

\* C4: the canonical chosen by merge_strain_cluster is a strain of the cluster
\* with the greatest richness, and among equally rich ones the lowest id; the
\* returned name is that strain's name; a cluster with strains always gets one.
C4_RichestLowestId ==
    ret.op = "merge" =>
        LET members == ClusterMembers(ret.arg)
        IN  /\ (members # {}) => ret.cid # 0
            /\ ret.cid # 0 =>
                 /\ ret.cid \in members
                 /\ ret.val = strains[ret.cid].nn
                 /\ \A j \in members :
                      \/ Richness(ret.cid) > Richness(j)
                      \/ Richness(ret.cid) = Richness(j) /\ ret.cid <= j

\* C4 witness: the canonical won on richness against a lower id and on id
\* against an equally rich strain.
C4_Witness ==
    /\ ret.op = "merge"
    /\ ret.cid # 0
    /\ \E j \in ClusterMembers(ret.arg), k \in ClusterMembers(ret.arg) :
         /\ j > ret.cid /\ Richness(j) = Richness(ret.cid)
         /\ k < ret.cid /\ Richness(k) < Richness(ret.cid)

(***************************************************************************)
(* Claims about find_duplicate_clusters.                                   *)
(***************************************************************************)
StoreNames == {strains[i].nn : i \in StrainIds}

InSameCluster(clusters, a, b) ==
    \E k \in 1..Len(clusters) : a \in Range(clusters[k]) /\ b \in Range(clusters[k])

\* the names sorted after a that score >= threshold against it
ForwardMatches(a, threshold) ==
    {n \in StoreNames : LexLess(a, n) /\ ScoreAtLeast(Ratio(a, n), threshold)}

\* C5 as stated: any two distinct names scoring >= threshold are returned in one
\* cluster, whatever other names the store holds.
C5_AllPairsClustered ==
    ret.op = "find" =>
        \A a \in StoreNames, b \in StoreNames :
            (a # b /\ ScoreAtLeast(Ratio(a, b), ret.arg)) => InSameCluster(ret.val, a, b)

\* C5 amended: two distinct names scoring >= threshold are returned in one
\* cluster whenever the lexicographically smaller of them has at most
\* limit_per_query later-sorted names scoring >= threshold.
C5_PairsWithinLimitClustered ==
    ret.op = "find" =>
        \A a \in StoreNames, b \in StoreNames :
            (/\ LexLess(a, b)
             /\ ScoreAtLeast(Ratio(a, b), ret.arg)
             /\ Cardinality(ForwardMatches(a, ret.arg)) <= LimitPerQuery)
            => InSameCluster(ret.val, a, b)

\* C5 witness: a name with exactly limit_per_query later matches, all clustered
\* with it, next to a name outside that cluster.
C5_Witness ==
    /\ ret.op = "find"
    /\ \E a \in StoreNames :
         /\ Cardinality(ForwardMatches(a, ret.arg)) = LimitPerQuery
         /\ \A b \in ForwardMatches(a, ret.arg) : InSameCluster(ret.val, a, b)
         /\ \E c \in StoreNames : ~InSameCluster(ret.val, a, c)

\* the stores that differ from a table by exchanging two successive insertions;
\* every insertion order is reached from any other by such exchanges
Exchanged(table) ==
    {[k \in 1..Len(table) |->
        IF k = i THEN table[i + 1] ELSE IF k = i + 1 THEN table[i] ELSE table[k]] :
        i \in 1..(Len(table) - 1)}

\* C6: stores holding the same names inserted in different orders yield the same
\* clusters, members and cluster order alike, for the same threshold and
\* limit_per_query (stated for the store before a call; calls leave it as it is).
C6_InsertionOrderIrrelevant ==
    ret.op = "none" =>
        \A t \in Thresholds, limit \in {1, LimitPerQuery} :
            LET found == FindDuplicateClustersIn(strains, t, limit)
            IN  \A other \in Exchanged(strains) :
                    FindDuplicateClustersIn(other, t, limit) = found

\* C6 witness: a store not inserted in sorted order, with two clusters and a
\* name that has more matches than limit_per_query lets through.
C6_Witness ==
    /\ [i \in StrainIds |-> strains[i].nn] # FetchNames(strains)
    /\ \E t \in Thresholds :
         /\ Len(FindDuplicateClustersIn(strains, t, 1)) >= 2
         /\ \E a \in StoreNames : Cardinality(ForwardMatches(a, t)) > 1

(***************************************************************************)
(* Claims about confidence scores.                                         *)
(***************************************************************************)
NSources(r) == SourceCount(reports, r.strain_id, r.effect_id)

Votes(r) == CHOOSE v \in r.report_count : TRUE

\* C7: every effect_reports row has a confidence in [0, 1], when inserted by
\* import_effects_for_strain and after every compute_confidence_scores run,
\* whatever the report_counts (NULL, negative, 0, positive) and source counts.
C7_ConfidenceInUnitRange ==
    \A r \in reports : 0 <= r.confidence /\ r.confidence <= 1000000

\* C7 witness: after a run, a pair with three sources whose rows carry a NULL,
\* a negative and the maximal report_count, the last one scored 1.0.
C7_Witness ==
    /\ ret.op = "confidence"
    /\ \E r \in reports, q \in reports, p \in reports :
         /\ NSources(r) = 3 /\ r.effect_id = q.effect_id /\ q.effect_id = p.effect_id
         /\ r.report_count = {} /\ r.confidence = 800000
         /\ q.report_count = {-1} /\ q.confidence = 800000
         /\ p.report_count = {MaxVotesOf(reports)} /\ p.confidence = 1000000

\* C8: of two rows with the same report_count scored in one run, the one whose
\* pair has more sources gets no lower confidence: 0.2 more per extra source
\* from 1 to 2 and from 2 to 3 (up to the cap of 1.0), 4 or more as 3.
C8_MonotoneInSources ==
    ret.op = "confidence" =>
        \A r \in reports, q \in reports :
            (r.report_count = q.report_count /\ NSources(r) <= NSources(q)) =>
                /\ r.confidence <= q.confidence
                /\ q.confidence =
                     Min(r.confidence + 200000 * (Min(NSources(q), 3) - Min(NSources(r), 3)),
                         1000000)

\* C8 witness: a row of a 4-source pair and a row of a 3-source pair with the
\* same positive report_count below the maximum, scored alike.
C8_Witness ==
    /\ ret.op = "confidence"
    /\ \E r \in reports, q \in reports :
         /\ NSources(r) = 4 /\ NSources(q) = 3
         /\ r.report_count = q.report_count
         /\ Votes(r) > 0 /\ Votes(r) < MaxVotesOf(reports)
         /\ r.confidence = q.confidence

\* C9: of two rows whose pairs have the same number of sources, scored in one
\* run, the one with the larger report_count gets no lower confidence.
C9_MonotoneInVotes ==
    ret.op = "confidence" =>
        \A r \in reports, q \in reports :
            (/\ NSources(r) = NSources(q)
             /\ r.report_count # {} /\ q.report_count # {}
             /\ Votes(r) <= Votes(q))
            => r.confidence <= q.confidence

\* C9 witness: two rows with equally many sources and different positive
\* report_counts, the larger scored strictly higher, next to a negative one.
C9_Witness ==
    /\ ret.op = "confidence"
    /\ \E r \in reports, q \in reports, p \in reports :
         /\ NSources(r) = NSources(q) /\ NSources(p) = NSources(q)
         /\ r.report_count # {} /\ q.report_count # {} /\ p.report_count # {}
         /\ Votes(p) < 0
         /\ 0 < Votes(r) /\ Votes(r) < Votes(q)
         /\ p.confidence < r.confidence /\ r.confidence < q.confidence

\* C10 as stated: a row of a 2-source pair scores strictly higher than any row of
\* a single-source pair, and a row of a 3-source pair at least as high as any
\* row of a 2-source pair, whatever the report_counts.
C10_TiersStrict ==
    ret.op = "confidence" =>
        \A r \in reports, q \in reports :
            /\ (NSources(r) = 2 /\ NSources(q) = 1) => r.confidence > q.confidence
            /\ (NSources(r) = 3 /\ NSources(q) = 2) => r.confidence >= q.confidence

\* C10 amended: a row of a 2-source pair scores at least as high as any row of a
\* single-source pair, and equally only when the single-source row holds the
\* global maximum report_count and the 2-source row gets no vote bonus; a row of
\* a 3-source pair scores at least as high as any row of a 2-source pair.
C10_TiersWeak ==
    ret.op = "confidence" =>
        \A r \in reports, q \in reports :
            /\ (NSources(r) = 2 /\ NSources(q) = 1) =>
                 /\ r.confidence >= q.confidence
                 /\ r.confidence = q.confidence =>
                      /\ q.report_count = {MaxVotesOf(reports)}
                      /\ ~HasVoteBonus(r.report_count, MaxVotesOf(reports))
            /\ (NSources(r) = 3 /\ NSources(q) = 2) => r.confidence >= q.confidence

\* C10 witness: a single-source row with the maximal report_count scored like a
\* zero-vote row of a 2-source pair.
C10_Witness ==
    /\ ret.op = "confidence"
    /\ \E r \in reports, q \in reports :
         /\ NSources(r) = 2 /\ NSources(q) = 1
         /\ r.report_count = {0}
         /\ Votes(q) = MaxVotesOf(reports)
         /\ r.confidence = q.confidence

\* C11: after a run, a row with report_count = 0, and any row when no row of
\* the table has report_count > 0, carries exactly the base score: 0.4 when
\* its pair has one source, 0.6 with two, 0.8 with three or more.
NoPositiveVotes == \A q \in reports : \A v \in q.report_count : v <= 0

C11_ZeroVotesBaseOnly ==
    ret.op = "confidence" =>
        \A r \in reports :
            (r.report_count = {0} \/ NoPositiveVotes) =>
                r.confidence = CASE NSources(r) = 1 -> 400000
                                 [] NSources(r) = 2 -> 600000
                                 [] OTHER -> 800000

\* C11 witness: a table with a positive report_count whose run left a
\* zero-vote row of a single-source pair at 0.4 and one of a four-source
\* pair at 0.8.
C11_Witness ==
    /\ ret.op = "confidence"
    /\ ~NoPositiveVotes
    /\ \E r \in reports, q \in reports :
         /\ r.report_count = {0} /\ NSources(r) = 1 /\ r.confidence = 400000
         /\ q.report_count = {0} /\ NSources(q) = 4 /\ q.confidence = 800000

\* the columns of effect_reports other than confidence
ReportKeys(rows) ==
    {[strain_id |-> r.strain_id, effect_id |-> r.effect_id, source |-> r.source,
      report_count |-> r.report_count] : r \in rows}

\* C12: a compute_confidence_scores run inserts and deletes no effect_reports
\* row and leaves strain_id, effect_id, source and report_count of every row
\* as they were; only confidence may differ.
C12_OnlyConfidenceChanges ==
    [][ret'.op = "confidence" =>
          /\ Cardinality(reports') = Cardinality(reports)
          /\ ReportKeys(reports') = ReportKeys(reports)
          /\ effects' = effects /\ strains' = strains]_vars

\* C12 witness: a run has rewritten the confidence of a row whose
\* report_count is NULL and of a row with votes.
C12_Witness ==
    /\ ret.op = "confidence"
    /\ \E r \in reports, q \in reports :
         /\ r.report_count = {} /\ r.confidence < 1000000
         /\ q.report_count = {MaxVotes} /\ q.confidence < 1000000

\* the table as import_effects_for_strain would have left it: every row at 1.0
FreshlyImported(rows) == {[r EXCEPT !.confidence = 1000000] : r \in rows}

\* the confidences the documented formula gives the rows of a table
Rescored(rows) ==
    {[r EXCEPT !.confidence =
          RowConfidence(SourceCount(rows, r.strain_id, r.effect_id),
                        r.report_count, MaxVotesOf(rows))] : r \in rows}

\* C13: every run rewrites every row: the returned count is the number of
\* rows, the confidences written are those a run over the same rows freshly
\* imported would write (the stored confidence plays no part), and a run
\* right after a run changes nothing.
C13_FullRecompute ==
    [][ret'.op = "confidence" =>
          /\ ret'.val = Cardinality(reports')
          /\ reports' = Rescored(FreshlyImported(reports))
          /\ (ret.op = "confidence" => reports' = reports)]_vars

\* C13 witness: a second run in a row over a table of three rows, one of them
\* with zero votes, none left at the import default.
C13_Witness ==
    /\ ret.op = "confidence" /\ ret.again /\ ret.val = 3
    /\ \E r \in reports : r.report_count = {0}
    /\ \A r \in reports : r.confidence < 1000000

(***************************************************************************)
(* Text.  A string is the sequence of its character codes.                 *)
(***************************************************************************)
\* str.lower() on one ASCII character
LowerChar(c) == IF c \in 65..90 THEN c + 32 ELSE c

\* str.lower()
Lower(s) == [i \in 1..Len(s) |-> LowerChar(s[i])]

\* the whitespace of str.strip() and of the regular expression \s (ASCII)
IsSpace(c) == c \in {9, 10, 11, 12, 13, 32}

\* str.strip()
Strip(s) ==
    LET keep == {i \in 1..Len(s) : ~IsSpace(s[i])}
    IN  IF keep = {} THEN <<>>
        ELSE SubSeq(s, CHOOSE i \in keep : \A j \in keep : i <= j,
                       CHOOSE i \in keep : \A j \in keep : j <= i)

(***************************************************************************)
(* consumer_mapper.py                                                      *)
(***************************************************************************)
\* the lookup dict, in insertion order: a key keeps its place when it is
\* assigned again
LookupHas(lookup, key) == \E i \in 1..Len(lookup) : lookup[i].key = key

LookupGet(lookup, key) == lookup[CHOOSE i \in 1..Len(lookup) : lookup[i].key = key]

LookupItem(key, entry) ==
    [key |-> key, id |-> entry.id, canonical_name |-> entry.canonical_name,
     category |-> entry.category]

\* mutant: a key already present is kept, so a synonym met first shadows a name
LookupPutIfAbsent(lookup, key, entry) ==
    IF LookupHas(lookup, key) THEN lookup ELSE Append(lookup, LookupItem(key, entry))

\* lookup[key] = entry
LookupPut(lookup, key, entry) ==
    IF LookupHas(lookup, key)
    THEN [i \in 1..Len(lookup) |->
            IF lookup[i].key = key THEN LookupItem(key, entry) ELSE lookup[i]]
    ELSE Append(lookup, LookupItem(key, entry))

\* for syn in json.loads(synonyms_json): if syn_lower not in lookup: ...
RECURSIVE LookupSynonyms(_, _, _)
LookupSynonyms(lookup, syns, entry) ==
    IF syns = <<>> THEN lookup
    ELSE LET syn_lower == Strip(Lower(Head(syns)))
         IN  LookupSynonyms(IF LookupHas(lookup, syn_lower) THEN lookup
                            ELSE LookupPut(lookup, syn_lower, entry),
                            Tail(syns), entry)

\* for ce_id, name, category, synonyms_json in rows
RECURSIVE LookupRows(_, _, _)
LookupRows(lookup, rows, i) ==
    IF i > Len(rows) THEN lookup
    ELSE LET entry == [id |-> i, canonical_name |-> rows[i].name,
                       category |-> rows[i].category]
         IN  LookupRows(LookupSynonyms(LookupPut(lookup, rows[i].name, entry),
                                       rows[i].synonyms, entry),
                        rows, i + 1)

\* build_effect_lookup(conn)
BuildEffectLookup(rows) == LookupRows(<<>>, rows, 1)

\* mutant: spaces are left alone
NormalizeConsumerEffectNoHyphen(name) == Strip(Lower(name))

\* _normalize_consumer_effect: name.lower().strip().replace(" ", "-")
NormalizeConsumerEffect(name) ==
    LET stripped == Strip(Lower(name))
    IN  [i \in 1..Len(stripped) |-> IF stripped[i] = 32 THEN 45 ELSE stripped[i]]

\* the dict map_effect_name returns; None is {}
MapResult(entry, method) ==
    {[canonical_name |-> entry.canonical_name, canonical_id |-> entry.id,
      category |-> entry.category, method |-> method]}

\* mutant: every key of the lookup, synonyms included
RECURSIVE CanonicalKeysAll(_)
CanonicalKeysAll(lookup) ==
    IF lookup = <<>> THEN <<>>
    ELSE <<Head(lookup).key>> \o CanonicalKeysAll(Tail(lookup))

\* [k for k, v in lookup.items() if v["canonical_name"] == k]
RECURSIVE CanonicalKeys(_)
CanonicalKeys(lookup) ==
    IF lookup = <<>> THEN <<>>
    ELSE IF Head(lookup).canonical_name = Head(lookup).key
         THEN <<Head(lookup).key>> \o CanonicalKeys(Tail(lookup))
         ELSE CanonicalKeys(Tail(lookup))

\* map_effect_name(name, lookup)
MapEffectNameIn(name, lookup) ==
    LET normalized == NormalizeConsumerEffect(name)
        lowered == Strip(Lower(name))
        match == Extract(normalized, CanonicalKeys(lookup), 85, 1)
    IN  IF LookupHas(lookup, normalized)
        THEN MapResult(LookupGet(lookup, normalized),
                       IF LookupGet(lookup, normalized).canonical_name = normalized
                       THEN "exact" ELSE "synonym")
        ELSE IF LookupHas(lookup, lowered)
        THEN MapResult(LookupGet(lookup, lowered), "synonym")
        ELSE IF match # <<>>
        THEN MapResult(LookupGet(lookup, match[1]), "fuzzy")
        ELSE {}

\* map_effect_name(name, build_effect_lookup(conn))
MapEffectName(name) ==
    /\ ret' = [op |-> "map", arg |-> name,
               val |-> MapEffectNameIn(name, BuildEffectLookup(canonical)),
               cid |-> 0, again |-> FALSE]
    /\ UNCHANGED <<strains, compCount, effects, reports, aliases, run, canonical, mappings>>

(***************************************************************************)
(* llm_classify.py                                                         *)
(* CANONICAL_EFFECTS is the list seed_canonical_effects wrote to the       *)
(* canonical_effects table: its rows, in id order.                         *)
(***************************************************************************)
DictPut(d, k, v) == [x \in DOMAIN d \cup {k} |-> IF x = k THEN v ELSE d[x]]

\* mutant: the synonym is stored as its own target, not the canonical name
RECURSIVE SynonymMapSelf(_, _, _)
SynonymMapSelf(mapping, syns, canonical_name) ==
    IF syns = <<>> THEN mapping
    ELSE SynonymMapSelf(DictPut(mapping, Lower(Head(syns)), Lower(Head(syns))),
                        Tail(syns), canonical_name)

\* for synonym in effect.get("synonyms", []): mapping[synonym.lower()] = canonical_name
RECURSIVE SynonymMapSynonyms(_, _, _)
SynonymMapSynonyms(mapping, syns, canonical_name) ==
    IF syns = <<>> THEN mapping
    ELSE SynonymMapSynonyms(DictPut(mapping, Lower(Head(syns)), canonical_name),
                            Tail(syns), canonical_name)

\* for effect in CANONICAL_EFFECTS
RECURSIVE SynonymMapRows(_, _)
SynonymMapRows(mapping, rows) ==
    IF rows = <<>> THEN mapping
    ELSE SynonymMapRows(
            SynonymMapSynonyms(DictPut(mapping, Lower(Head(rows).name), Head(rows).name),
                               Head(rows).synonyms, Head(rows).name),
            Tail(rows))

\* _build_synonym_map()
BuildSynonymMap(rows) == SynonymMapRows([x \in {} |-> <<>>], rows)

\* canonical_ids: SELECT id, name FROM canonical_effects
CanonicalHas(rows, name) == \E i \in 1..Len(rows) : rows[i].name = name

CanonicalId(rows, name) == CHOOSE i \in 1..Len(rows) : rows[i].name = name

\* SELECT e.name FROM effects e LEFT JOIN effect_mappings em
\*   ON e.name = em.raw_name WHERE em.id IS NULL
UnmappedNames(table, rows) ==
    SelectSeq(table, LAMBDA n : ~\E i \in 1..Len(rows) : rows[i].raw_name = n)

\* the unique key of effect_mappings: raw_name
MappingKeyTaken(rows, raw_name) == \E i \in 1..Len(rows) : rows[i].raw_name = raw_name

\* mutant: INSERT OR REPLACE, the row of that raw_name is rewritten
InsertOrReplaceMapping(rows, raw_name, canonical_id, confidence, method) ==
    IF MappingKeyTaken(rows, raw_name)
    THEN [i \in 1..Len(rows) |->
            IF rows[i].raw_name = raw_name
            THEN [raw_name |-> raw_name, canonical_id |-> canonical_id,
                  confidence |-> confidence, method |-> method]
            ELSE rows[i]]
    ELSE Append(rows, [raw_name |-> raw_name, canonical_id |-> canonical_id,
                       confidence |-> confidence, method |-> method])

\* INSERT OR IGNORE INTO effect_mappings (raw_name, canonical_id, confidence, method)
InsertOrIgnoreMapping(rows, raw_name, canonical_id, confidence, method) ==
    IF MappingKeyTaken(rows, raw_name) THEN rows
    ELSE Append(rows, [raw_name |-> raw_name, canonical_id |-> canonical_id,
                       confidence |-> confidence, method |-> method])

\* mutant: a label of exactly 40 characters is filtered too
TooLongFrom40(raw_name) == Len(raw_name) >= 40

\* len(raw_name) > 40
TooLong(raw_name) == Len(raw_name) > 40

\* one pass of the loop of classify_effects_rule_based
RuleBasedStep(st, raw_name, synonym_map, canon) ==
    LET lower_name == Strip(Lower(raw_name))
    IN  IF TooLong(raw_name)
        THEN [rows |-> InsertOrIgnoreMapping(st.rows, raw_name, {}, 0, "length_filter"),
              stats |-> [st.stats EXCEPT !.length_filtered = @ + 1]]
        ELSE IF CanonicalHas(canon, lower_name)
        THEN [rows |-> InsertOrIgnoreMapping(st.rows, raw_name,
                           {CanonicalId(canon, lower_name)}, 1000000, "exact_match"),
              stats |-> [st.stats EXCEPT !.exact_matches = @ + 1]]
        ELSE IF /\ lower_name \in DOMAIN synonym_map
                /\ synonym_map[lower_name] # <<>>
                /\ CanonicalHas(canon, synonym_map[lower_name])
        THEN [rows |-> InsertOrIgnoreMapping(st.rows, raw_name,
                           {CanonicalId(canon, synonym_map[lower_name])}, 950000,
                           "synonym_match"),
              stats |-> [st.stats EXCEPT !.synonym_matches = @ + 1]]
        ELSE [rows |-> st.rows, stats |-> [st.stats EXCEPT !.unmatched = @ + 1]]

\* for (raw_name,) in unmapped
RECURSIVE RuleBasedLoop(_, _, _, _)
RuleBasedLoop(st, names, synonym_map, canon) ==
    IF names = <<>> THEN st
    ELSE RuleBasedLoop(RuleBasedStep(st, Head(names), synonym_map, canon),
                       Tail(names), synonym_map, canon)

\* classify_effects_rule_based(conn)
ClassifyEffectsRuleBased ==
    /\ LET st == RuleBasedLoop(
                    [rows |-> mappings,
                     stats |-> [exact_matches |-> 0, synonym_matches |-> 0,
                                length_filtered |-> 0, unmatched |-> 0]],
                    UnmappedNames(effects, mappings), BuildSynonymMap(canonical), canonical)
       IN  /\ mappings' = st.rows
           /\ ret' = [op |-> "rule_based", arg |-> <<>>, val |-> st.stats, cid |-> 0,
                      again |-> ret.op = "rule_based"]
    /\ UNCHANGED <<strains, compCount, effects, reports, aliases, run, canonical>>

\* the string "JUNK"
Junk == <<74, 85, 78, 75>>

\* mutant: an unknown canonical name leaves a row too, method llm_failed
RECURSIVE LlmLoopFailedRow(_, _, _)
LlmLoopFailedRow(st, items, canon) ==
    IF items = <<>> THEN st
    ELSE LET raw_name == Head(items)[1]
             mapped_value == Head(items)[2]
             st2 == IF mapped_value = Junk
                    THEN [rows |-> InsertOrIgnoreMapping(st.rows, raw_name, {}, 0, "llm_junk"),
                          stats |-> [st.stats EXCEPT !.llm_junk = @ + 1]]
                    ELSE IF CanonicalHas(canon, mapped_value)
                    THEN [rows |-> InsertOrIgnoreMapping(st.rows, raw_name,
                                       {CanonicalId(canon, mapped_value)}, 850000,
                                       "llm_glm-4.7"),
                          stats |-> [st.stats EXCEPT !.llm_mapped = @ + 1]]
                    ELSE [rows |-> InsertOrIgnoreMapping(st.rows, raw_name, {}, 0,
                                       "llm_failed"),
                          stats |-> [st.stats EXCEPT !.llm_failed = @ + 1]]
         IN  LlmLoopFailedRow(st2, Tail(items), canon)

\* for raw_name, mapped_value in mappings.items()
RECURSIVE LlmLoop(_, _, _)
LlmLoop(st, items, canon) ==
    IF items = <<>> THEN st
    ELSE LET raw_name == Head(items)[1]
             mapped_value == Head(items)[2]
             st2 == IF mapped_value = Junk
                    THEN [rows |-> InsertOrIgnoreMapping(st.rows, raw_name, {}, 0, "llm_junk"),
                          stats |-> [st.stats EXCEPT !.llm_junk = @ + 1]]
                    ELSE IF CanonicalHas(canon, mapped_value)
                    THEN [rows |-> InsertOrIgnoreMapping(st.rows, raw_name,
                                       {CanonicalId(canon, mapped_value)}, 850000,
                                       "llm_glm-4.7"),
                          stats |-> [st.stats EXCEPT !.llm_mapped = @ + 1]]
                    ELSE [rows |-> st.rows,
                          stats |-> [st.stats EXCEPT !.llm_failed = @ + 1]]
         IN  LlmLoop(st2, Tail(items), canon)

\* batch_size of classify_effects_llm
BatchSize == 40

\* classify_effects_llm(conn, api_key) with the default batch_size.  reply is
\* what the request of the one batch came to: not ok (httpx.HTTPError,
\* KeyError or ValueError raised) or the items of the parsed JSON object.
ClassifyEffectsLlm(reply) ==
    /\ Len(UnmappedNames(effects, mappings)) <= BatchSize
    /\ LET unmapped_names == UnmappedNames(effects, mappings)
           zero == [llm_mapped |-> 0, llm_junk |-> 0, llm_failed |-> 0]
           st == IF unmapped_names = <<>> THEN [rows |-> mappings, stats |-> zero]
                 ELSE IF ~reply.ok
                 THEN [rows |-> mappings,
                       stats |-> [zero EXCEPT !.llm_failed = Len(unmapped_names)]]
                 ELSE LlmLoop([rows |-> mappings, stats |-> zero], reply.items, canonical)
       IN  /\ mappings' = st.rows
           /\ ret' = [op |-> "llm", arg |-> reply, val |-> st.stats, cid |-> 0,
                      again |-> FALSE]
    /\ UNCHANGED <<strains, compCount, effects, reports, aliases, run, canonical>>

\* INSERT OR IGNORE INTO effects (name, category): a raw effect name arrives
InsertEffect(name, maxRows) ==
    /\ Len(EnsureEffectExists(effects, name).effects) <= maxRows
    /\ effects' = EnsureEffectExists(effects, name).effects
    /\ ret' = NoRet
    /\ UNCHANGED <<strains, compCount, reports, aliases, run, canonical, mappings>>

(***************************************************************************)
(* SpecResolve: one raw label against a seeded taxonomy, resolved by       *)
(* map_effect_name and by classify_effects_rule_based.                     *)
(* Canonical names are lowercase and hyphenated, as in taxonomy.py; a      *)
(* synonym belongs to one effect and may equal the name of another.        *)
(***************************************************************************)
MaxCanonical == 2
MaxResolveEffects == 1

\* "ab", "a-b", "abcdef"
CanonicalNames == {<<97, 98>>, <<97, 45, 98>>, <<97, 98, 99, 100, 101, 102>>}

\* [], ["ab"], ["a b"], ["bb"], ["bb", "a b"]
SynonymLists ==
    {<<>>, <<<<97, 98>>>>, <<<<97, 32, 98>>>>, <<<<98, 98>>>>,
     <<<<98, 98>>, <<97, 32, 98>>>>}

CanonicalRows ==
    {[name |-> n, category |-> IF Len(n) = 2 THEN "positive" ELSE "negative",
      synonyms |-> syns] : n \in CanonicalNames, syns \in SynonymLists}

Taxonomies ==
    {t \in UNION {[1..n -> CanonicalRows] : n \in 2..MaxCanonical} :
        \A i \in 1..Len(t), j \in 1..Len(t) :
            i # j => /\ t[i].name # t[j].name
                     /\ Range(t[i].synonyms) \cap Range(t[j].synonyms) = {}}

\* a label followed by spaces up to a length of n
Padded(s, n) == s \o [i \in 1..(n - Len(s)) |-> 32]

\* "ab", "Ab ", "a b", "A B", "a-b", "bb", "BB", "abcdef", "abcdefg", "zz"
ShortLabels ==
    {<<97, 98>>, <<65, 98, 32>>, <<97, 32, 98>>, <<65, 32, 66>>, <<97, 45, 98>>,
     <<98, 98>>, <<66, 66>>, <<97, 98, 99, 100, 101, 102>>,
     <<97, 98, 99, 100, 101, 102, 103>>, <<122, 122>>}

\* and "ab" and "A B" padded to 40 and to 41 characters, "bb" to 41
RawLabels ==
    ShortLabels
    \cup {Padded(s, n) : s \in {<<97, 98>>, <<65, 32, 66>>}, n \in {40, 41}}
    \cup {Padded(<<98, 98>>, 41)}

SeededStore(taxonomies) ==
    /\ strains = <<>>
    /\ compCount = <<>>
    /\ effects = <<>>
    /\ reports = {}
    /\ aliases = EmptyBag
    /\ run = IdleRun
    /\ ret = NoRet
    /\ canonical \in taxonomies
    /\ mappings = <<>>

ResolveInsert == \E name \in RawLabels : InsertEffect(name, MaxResolveEffects)

ResolveMap == \E name \in RawLabels : MapEffectName(name)

NextResolve == ResolveInsert \/ ResolveMap \/ ClassifyEffectsRuleBased

SpecResolve == SeededStore(Taxonomies) /\ [][NextResolve]_vars

(***************************************************************************)
(* Claims about the effect resolver.                                       *)
(***************************************************************************)
CanonicalIdsOf == 1..Len(canonical)

\* s is the name of effect y and a synonym of another effect
NameCollides(s, y) ==
    /\ canonical[y].name = s
    /\ \E x \in CanonicalIdsOf : x # y /\ s \in Range(canonical[x].synonyms)

MappingRows == Range(mappings)

\* the effect_mappings row of a raw name, if any
MappingOf(raw_name) == {m \in MappingRows : m.raw_name = raw_name}

\* the classification has run over the effects table as it is now
RuleBasedDone == ret.op = "rule_based"

\* a label equal to a colliding name resolves to the effect of that name at
\* the exact stage, whose method classify_effects_rule_based writes as given
ExactBeatsSynonym(rule_method) ==
    \A y \in CanonicalIdsOf :
        LET s == canonical[y].name
        IN  NameCollides(s, y) =>
              /\ (ret.op = "map" /\ ret.arg = s) =>
                    \E r \in ret.val : r.canonical_id = y /\ r.method = "exact"
              /\ (RuleBasedDone /\ s \in Range(effects)) => MappingOf(s) # {}
              /\ \A m \in MappingOf(s) :
                    m.canonical_id = {y} /\ m.method = rule_method

\* C14 (as claimed): a raw label that is the name of effect Y and a synonym of
\* another effect X resolves to Y with method=exact, never to X by synonym,
\* in map_effect_name and in classify_effects_rule_based, in any row order.
C14_ExactBeatsSynonym == ExactBeatsSynonym("exact")

\* C14 (amended): such a label resolves to Y at the exact stage in both:
\* map_effect_name returns method=exact, classify_effects_rule_based writes
\* method=exact_match.
C14_ExactStageBeatsSynonym == ExactBeatsSynonym("exact_match")

\* C14 witness: the effect that lists the name as a synonym comes first in
\* the table; the label has been classified and then mapped, both to Y.
C14_Witness ==
    /\ ret.op = "map"
    /\ \E y \in CanonicalIdsOf :
         /\ ret.arg = canonical[y].name
         /\ \E x \in CanonicalIdsOf : x < y /\ ret.arg \in Range(canonical[x].synonyms)
         /\ \E r \in ret.val : r.canonical_id = y /\ r.method = "exact"
         /\ \E m \in MappingOf(ret.arg) : m.canonical_id = {y}

\* the lookup map_effect_name is called with
CurrentLookup == BuildEffectLookup(canonical)

\* rows of effect_mappings for labels over 40 characters are length_filter
\* rows, labels of up to 40 are never filtered, and after a classification
\* every label over 40 characters in the effects table has its row
LengthFilterFirst ==
    /\ \A m \in MappingRows :
         /\ Len(m.raw_name) > 40 =>
                m.method = "length_filter" /\ m.canonical_id = {} /\ m.confidence = 0
         /\ Len(m.raw_name) <= 40 => m.method # "length_filter"
    /\ RuleBasedDone =>
         \A n \in Range(effects) : Len(n) > 40 => MappingOf(n) # {}

\* C15 (as claimed): the length filter comes first in the effect resolver:
\* a label over 40 characters is classified length_filter, canonical null,
\* confidence 0.0, and reaches no later stage even when its trimmed form is
\* a canonical name or a synonym; a label of exactly 40 is not filtered.
C15_LengthFilterFirst ==
    /\ LengthFilterFirst
    /\ (ret.op = "map" /\ Len(ret.arg) > 40) =>
          \A r \in ret.val : r.method = "length_filter"

\* C15 (amended): that holds of classify_effects_rule_based; map_effect_name
\* has no length filter and resolves a label of any length as it resolves
\* the label without its surrounding whitespace.
C15_LengthFilterFirstRuleBased ==
    /\ LengthFilterFirst
    /\ ret.op = "map" => ret.val = MapEffectNameIn(Strip(ret.arg), CurrentLookup)

\* C15 witness: a label of 41 characters whose trimmed form is a canonical
\* name has been classified length_filter, and map_effect_name has then
\* resolved a label of 41 characters to a canonical effect.
C15_Witness ==
    /\ ret.op = "map" /\ Len(ret.arg) = 41 /\ ret.val # {}
    /\ \E m \in MappingRows :
         /\ Len(m.raw_name) = 41 /\ m.method = "length_filter"
         /\ CanonicalHas(canonical, Strip(Lower(m.raw_name)))

\* the label resolves by map_effect_name to effect y with that method
MapsTo(y, method) == \E r \in ret.val : r.canonical_id = y /\ r.method = method

\* as MapsTo, the dict carrying that confidence too
MapsToWith(y, method, confidence) ==
    \E r \in ret.val :
        /\ r.canonical_id = y /\ r.method = method
        /\ "confidence" \in DOMAIN r
        /\ r["confidence"] = confidence

\* the label has, once classified, a row for effect y with that method and
\* confidence, and never another
ClassifiedAs(label, y, method, confidence) ==
    /\ (RuleBasedDone /\ label \in Range(effects)) => MappingOf(label) # {}
    /\ \A m \in MappingOf(label) :
          m.canonical_id = {y} /\ m.method = method /\ m.confidence = confidence

LabelsSeen == Range(effects) \cup (IF ret.op = "map" THEN {ret.arg} ELSE {})

\* the form of a label the claims speak of: lowercase, trimmed, every space
\* a hyphen ('Dry Mouth' -> 'dry-mouth')
HyphenatedForm(label) ==
    LET t == Strip(Lower(label))
    IN  [i \in 1..Len(t) |-> IF t[i] = 32 THEN 45 ELSE t[i]]

\* C16 (as claimed): a label of at most 40 characters whose lowercased,
\* trimmed, hyphenated form is a canonical name resolves to that effect with
\* method=exact and confidence 1.0, in map_effect_name and in
\* classify_effects_rule_based.
C16_HyphenatedExact ==
    \A y \in CanonicalIdsOf : \A label \in LabelsSeen :
        (Len(label) <= 40 /\ HyphenatedForm(label) = canonical[y].name) =>
            /\ (ret.op = "map" /\ ret.arg = label) => MapsToWith(y, "exact", 1000000)
            /\ ClassifiedAs(label, y, "exact", 1000000)

\* C16 (amended): map_effect_name returns that effect with method=exact (its
\* dict has no confidence); classify_effects_rule_based does not hyphenate:
\* it writes method=exact_match, confidence 1.0 exactly for the labels whose
\* lowercased, trimmed form itself is a canonical name.
C16_ExactByEachResolver ==
    /\ \A y \in CanonicalIdsOf : \A label \in LabelsSeen :
         /\ (/\ Len(label) <= 40
             /\ HyphenatedForm(label) = canonical[y].name
             /\ ret.op = "map" /\ ret.arg = label)
                => MapsTo(y, "exact") /\ \A r \in ret.val : "confidence" \notin DOMAIN r
         /\ (Len(label) <= 40 /\ Strip(Lower(label)) = canonical[y].name)
                => ClassifiedAs(label, y, "exact_match", 1000000)
    /\ \A m \in MappingRows :
         m.method = "exact_match" =>
            \E y \in m.canonical_id : Strip(Lower(m.raw_name)) = canonical[y].name

\* C16 witness: "A B" has been classified by its synonym "a b", not as an
\* exact match, and is then mapped to "a-b" with method=exact by
\* map_effect_name.
C16_Witness ==
    /\ ret.op = "map" /\ ret.arg = <<65, 32, 66>>
    /\ \E y \in CanonicalIdsOf : canonical[y].name = <<97, 45, 98>> /\ MapsTo(y, "exact")
    /\ \E m \in MappingOf(ret.arg) : m.method = "synonym_match"

\* the label's lowercased, trimmed form is a synonym of effect e and no
\* canonical name
SynonymLabel(label, e) ==
    /\ Len(label) <= 40
    /\ Strip(Lower(label)) \in Range(canonical[e].synonyms)
    /\ ~CanonicalHas(canonical, Strip(Lower(label)))

\* C17 (as claimed): a label of at most 40 characters whose lowercased,
\* trimmed form is a synonym of effect E and no canonical name resolves to E
\* with method=synonym and confidence 0.95.
C17_SynonymResolves ==
    \A e \in CanonicalIdsOf : \A label \in LabelsSeen :
        SynonymLabel(label, e) =>
            /\ (ret.op = "map" /\ ret.arg = label) => MapsToWith(e, "synonym", 950000)
            /\ ClassifiedAs(label, e, "synonym", 950000)

\* C17 (amended): map_effect_name returns E with method=synonym (no
\* confidence), unless the hyphenated form of the label is a canonical name;
\* classify_effects_rule_based writes E with method=synonym_match and
\* confidence 0.95.
C17_SynonymByEachResolver ==
    \A e \in CanonicalIdsOf : \A label \in LabelsSeen :
        SynonymLabel(label, e) =>
            /\ (/\ ret.op = "map" /\ ret.arg = label
                /\ ~CanonicalHas(canonical, HyphenatedForm(label)))
                  => MapsTo(e, "synonym") /\ \A r \in ret.val : "confidence" \notin DOMAIN r
            /\ ClassifiedAs(label, e, "synonym_match", 950000)

\* C17 witness: "BB" is classified to the second effect by its synonym "bb"
\* and then mapped to it by map_effect_name.
C17_Witness ==
    /\ ret.op = "map" /\ ret.arg = <<66, 66>>
    /\ <<98, 98>> \in Range(canonical[2].synonyms)
    /\ MapsTo(2, "synonym")
    /\ \E m \in MappingOf(ret.arg) : m.canonical_id = {2} /\ m.method = "synonym_match"

(***************************************************************************)
(* SpecClassify: the taxonomy-cleanup classification of the effects table, *)
(* rule-based and LLM runs in any order while raw names arrive.            *)
(***************************************************************************)
MaxRawEffects == 2
MaxReplyItems == 1

\* "ab" with the synonym "bb", then "a-b" with the synonym "ab"
ClassifyTaxonomy ==
    <<[name |-> <<97, 98>>, category |-> "positive", synonyms |-> <<<<98, 98>>>>],
      [name |-> <<97, 45, 98>>, category |-> "negative", synonyms |-> <<<<97, 98>>>>]>>

\* "ab", "BB", "A B", "zz", and "zz" padded to 41 characters
ClassifyLabels ==
    {<<97, 98>>, <<66, 66>>, <<65, 32, 66>>, <<122, 122>>, Padded(<<122, 122>>, 41)}

\* raw names in a reply: "BB", "zz", and "yy", which is no name of the batch
ReplyKeys == {<<66, 66>>, <<122, 122>>, <<121, 121>>}

\* values in a reply: "JUNK", "a-b", and "xx", which is no canonical name
ReplyValues == {Junk, <<97, 45, 98>>, <<120, 120>>}

\* the request failed, or a JSON object of up to MaxReplyItems items
Replies ==
    {[ok |-> FALSE, items |-> <<>>]}
    \cup {[ok |-> TRUE, items |-> it] :
            it \in {q \in UNION {[1..n -> ReplyKeys \X ReplyValues] : n \in 0..MaxReplyItems} :
                      \A i \in 1..Len(q), j \in 1..Len(q) : i # j => q[i][1] # q[j][1]}}

ClassifyInsert == \E name \in ClassifyLabels : InsertEffect(name, MaxRawEffects)

ClassifyLlm == \E reply \in Replies : ClassifyEffectsLlm(reply)

NextClassify == ClassifyInsert \/ ClassifyEffectsRuleBased \/ ClassifyLlm

SpecClassify == SeededStore({ClassifyTaxonomy}) /\ [][NextClassify]_vars

\* C18 (as claimed): the method of every effect_mappings row is one of exact,
\* synonym, fuzzy, length_filter, llm, llm_junk, unmapped, whichever stage
\* wrote the row.
C18_MethodInSpecSet ==
    \A m \in MappingRows :
        m.method \in {"exact", "synonym", "fuzzy", "length_filter", "llm", "llm_junk",
                      "unmapped"}

\* C18 (amended): the method of every effect_mappings row is one of
\* exact_match, synonym_match, length_filter (rule-based) and llm_glm-4.7,
\* llm_junk (LLM).
C18_MethodInWrittenSet ==
    \A m \in MappingRows :
        m.method \in {"exact_match", "synonym_match", "length_filter", "llm_glm-4.7",
                      "llm_junk"}

\* C18 witness: rows written by both stages: an LLM mapping, an LLM junk row
\* and a rule-based row.
C18_Witness ==
    \E m \in MappingRows, k \in MappingRows, n \in MappingRows :
        /\ m.method = "llm_glm-4.7" /\ k.method = "llm_junk"
        /\ n.method \in {"exact_match", "synonym_match", "length_filter"}

\* C19: effect_mappings is append-only under every interleaving of rule-based
\* and LLM runs: a row once written keeps its canonical_id, confidence and
\* method, no raw_name gets a second row, and a rule-based run right after a
\* rule-based run over the same effects table inserts nothing.
C19_MappingsAppendOnly ==
    [][/\ Len(mappings') >= Len(mappings)
       /\ \A i \in 1..Len(mappings) : mappings'[i] = mappings[i]
       /\ \A i \in 1..Len(mappings'), j \in 1..Len(mappings') :
             i # j => mappings'[i].raw_name # mappings'[j].raw_name
       /\ (ret.op = "rule_based" /\ ret'.op = "rule_based") => mappings' = mappings]_vars

\* C19 witness: an LLM reply named a raw name the rule-based run had already
\* mapped, with another verdict, and the rule-based row is still there.
C19_Witness ==
    /\ ret.op = "llm" /\ ret.arg.ok
    /\ \E i \in 1..Len(ret.arg.items) :
         /\ ret.arg.items[i][2] = Junk
         /\ \E m \in MappingOf(ret.arg.items[i][1]) : m.method = "synonym_match"

(***************************************************************************)
(* normalize.py                                                            *)
(***************************************************************************)
\* name.replace('.', '')
RemovePeriods(s) == SelectSeq(s, LAMBDA c : c # 46)

\* re.sub(r'[\-_#\'\"()]', ' ', name)
PunctuationToSpace(s) ==
    [i \in 1..Len(s) |-> IF s[i] \in {45, 95, 35, 39, 34, 40, 41} THEN 32 ELSE s[i]]

\* re.sub(r'\s+', ' ', name)
RECURSIVE CollapseSpaces(_)
CollapseSpaces(s) ==
    IF s = <<>> THEN <<>>
    ELSE IF ~IsSpace(Head(s)) THEN <<Head(s)>> \o CollapseSpaces(Tail(s))
    ELSE IF Len(s) >= 2 /\ IsSpace(s[2]) THEN CollapseSpaces(Tail(s))
    ELSE <<32>> \o CollapseSpaces(Tail(s))

\* mutant: the result is not stripped after the spaces are collapsed
NormalizeStrainNameNoFinalStrip(name) ==
    CollapseSpaces(PunctuationToSpace(RemovePeriods(Strip(Lower(name)))))

\* normalize_strain_name(name)
NormalizeStrainName(name) ==
    Strip(CollapseSpaces(PunctuationToSpace(RemovePeriods(Strip(Lower(name))))))

\* a call of normalize_strain_name
NormalizeCall(name, again) ==
    /\ ret' = [op |-> "normalize", arg |-> name, val |-> NormalizeStrainName(name),
               cid |-> 0, again |-> again]
    /\ UNCHANGED <<strains, compCount, effects, reports, aliases, run, canonical, mappings>>

(***************************************************************************)
(* SpecNormalize: normalize_strain_name on every string of up to           *)
(* MaxNameLen characters, and on its own result.                           *)
(***************************************************************************)
MaxNameLen == 3

\* a A 1, space and tab, . - _ # ' " ( )
NameAlphabet == {97, 65, 49, 32, 9, 46, 45, 95, 35, 39, 34, 40, 41}

NameInputs == UNION {[1..n -> NameAlphabet] : n \in 0..MaxNameLen}

\* the string a caller is about to normalize
NameGiven ==
    /\ strains = <<>>
    /\ compCount = <<>>
    /\ effects = <<>>
    /\ reports = {}
    /\ aliases = EmptyBag
    /\ run = IdleRun
    /\ ret \in {[op |-> "given", arg |-> name, val |-> <<>>, cid |-> 0, again |-> FALSE] :
                  name \in NameInputs}
    /\ canonical = <<>>
    /\ mappings = <<>>

NormalizeInput == ret.op = "given" /\ NormalizeCall(ret.arg, FALSE)

NormalizeResult == ret.op = "normalize" /\ NormalizeCall(ret.val, TRUE)

NextNormalize == NormalizeInput \/ NormalizeResult

SpecNormalize == NameGiven /\ [][NextNormalize]_vars

\* C20: normalize_strain_name applied to its own result returns that result,
\* for every string of letters, digits, whitespace, periods, hyphens,
\* underscores, '#', quotes and parentheses.
C20_NormalizeIdempotent ==
    (ret.op = "normalize" /\ ret.again) => ret.val = ret.arg

\* C20 witness: the second call on a result that holds a space and is as long
\* as the longest input.
C20_Witness ==
    /\ ret.op = "normalize" /\ ret.again
    /\ Len(ret.arg) = MaxNameLen /\ 32 \in Range(ret.arg)
    /\ ret.val = ret.arg

(***************************************************************************)
(* process.extract as the repository calls it: from find_duplicate_clusters *)
(* (scorer fuzz.ratio) and from match_strain_names (scorer fuzz.WRatio).    *)
(* WRatio is not computed: its value for each known name is any value of    *)
(* WRatioValues, so what holds here holds for every scorer.                 *)
(***************************************************************************)
\* mutant: equal scores come out latest index first
ExtractScoredTiesLast(choices, score, cutoff, limit) ==
    LET cand == {i \in 1..Len(choices) : score[choices[i]] >= cutoff}
        Better(i, j) ==
            \/ score[choices[i]] > score[choices[j]]
            \/ /\ score[choices[i]] = score[choices[j]]
               /\ i > j
        pos(i) == 1 + Cardinality({j \in cand : Better(j, i)})
    IN  [k \in 1..Min(limit, Cardinality(cand)) |->
            LET i == CHOOSE j \in cand : pos(j) = k
            IN  <<choices[i], score[choices[i]], i>>]

\* process.extract(query, choices, scorer, limit, score_cutoff) for a scorer whose
\* values against the query are the table score: (choice, score, index) triples.
ExtractScored(choices, score, cutoff, limit) ==
    LET cand == {i \in 1..Len(choices) : score[choices[i]] >= cutoff}
        Better(i, j) ==
            \/ score[choices[i]] > score[choices[j]]
            \/ /\ score[choices[i]] = score[choices[j]]
               /\ i < j
        pos(i) == 1 + Cardinality({j \in cand : Better(j, i)})
    IN  [k \in 1..Min(limit, Cardinality(cand)) |->
            LET i == CHOOSE j \in cand : pos(j) = k
            IN  <<choices[i], score[choices[i]], i>>]

\* match_strain_names(query, known_names, limit, score_cutoff)
MatchStrainNames(query, known_names, score, limit, score_cutoff) ==
    LET normalized_query == NormalizeStrainName(query)
        results == ExtractScored(known_names, score, score_cutoff, limit)
    IN  /\ run.pc = "idle"
        /\ ret' = [op |-> "match",
                   arg |-> [query |-> normalized_query, choices |-> known_names,
                            score |-> score, cutoff |-> score_cutoff, limit |-> limit],
                   val |-> [k \in 1..Len(results) |-> <<results[k][1], results[k][2]>>],
                   cid |-> 0, again |-> FALSE]
        /\ UNCHANGED <<strains, compCount, effects, reports, aliases, run, canonical, mappings>>

\* the process.extract call of find_duplicate_clusters for loop index i
ExtractCall(i, threshold, limit) ==
    LET names == FetchNames(strains)
        choices == SubSeq(names, i + 1, Len(names))
    IN  /\ run.pc = "idle"
        /\ Len(names) >= 2
        /\ i \in 1..Len(names)
        /\ choices # <<>>
        /\ ret' = [op |-> "extract",
                   arg |-> [query |-> names[i], choices |-> choices,
                            cutoff |-> threshold, limit |-> limit],
                   val |-> Extract(names[i], choices, threshold, limit),
                   cid |-> 0, again |-> FALSE]
        /\ UNCHANGED <<strains, compCount, effects, reports, aliases, run, canonical, mappings>>

(***************************************************************************)
(* SpecMatch: the two callers of process.extract over small name stores.    *)
(***************************************************************************)
MaxKnown == 3

\* 'ab' and three names that all score 80 against it
MatchNames == {<<1, 2>>, <<1, 2, 3>>, <<1, 2, 4>>, <<1, 2, 5>>}

\* "Ab" and " a.b "
MatchQueries == {<<65, 98>>, <<32, 97, 46, 98, 32>>}

WRatioValues == {60, 70, 80}

MatchCutoffs == {70, 80}

MatchLimits == {1, 2}

MatchInsert ==
    \E nn \in MatchNames : Len(strains) < MaxKnown /\ InsertStrain(nn, "a")

MatchExtract ==
    \E i \in 1..MaxKnown, t \in Thresholds, limit \in {1, LimitPerQuery} :
        ExtractCall(i, t, limit)

\* the known names are the store's names in insertion order
MatchQuery ==
    LET known_names == [i \in StrainIds |-> strains[i].nn]
    IN  \E query \in MatchQueries, score \in [Range(known_names) -> WRatioValues],
           limit \in MatchLimits, cutoff \in MatchCutoffs :
            MatchStrainNames(query, known_names, score, limit, cutoff)

NextMatch == MatchInsert \/ MatchExtract \/ MatchQuery

SpecMatch == EmptyStore /\ [][NextMatch]_vars

\* position of a name in a list of distinct names
IndexIn(choices, n) == CHOOSE j \in 1..Len(choices) : choices[j] = n

RECURSIVE ExistingMap(_, _, _)
ExistingMap(table, i, map) ==
    IF i > Len(table) THEN map
    ELSE ExistingMap(table, i + 1, DictPut(map, table[i].nn, i))

\* list(existing_map.keys()) if fuzzy else []: the keys in order of first insertion
RECURSIVE KeysInOrder(_, _)
KeysInOrder(table, seen) ==
    IF table = <<>> THEN seen
    ELSE IF Head(table).nn \in Range(seen) THEN KeysInOrder(Tail(table), seen)
    ELSE KeysInOrder(Tail(table), Append(seen, Head(table).nn))

ExistingNames(table, fuzzy) == IF fuzzy THEN KeysInOrder(table, <<>>) ELSE <<>>

\* mutant: the lab names are selected without DISTINCT
LabNamesNotDistinct(lab_rows) == SelectSeq(lab_rows, LAMBDA n : n # <<>>)

\* SELECT DISTINCT normalized_strain_name FROM lab_results
\* WHERE normalized_strain_name != ''
LabNames(lab_rows) ==
    LET first == {i \in 1..Len(lab_rows) :
                    /\ lab_rows[i] # <<>>
                    /\ \A j \in 1..(i - 1) : lab_rows[j] # lab_rows[i]}
        nth(k) == CHOOSE i \in first : Cardinality({j \in first : j < i}) = k - 1
    IN  [k \in 1..Cardinality(first) |-> lab_rows[nth(k)]]

NoStats == [matched |-> 0, created |-> 0, skipped |-> 0, fuzzy_matched |-> 0]

\* the loop over lab_names; st = [table, map, stats]
RECURSIVE MatchStrainsLoop(_, _, _, _, _)
MatchStrainsLoop(st, lab_names, existing_names, threshold, fuzzy) ==
    IF lab_names = <<>> THEN st
    ELSE
      LET lab_name == Head(lab_names)
          rest == Tail(lab_names)
          stats == st.stats
      IN  IF lab_name \in DOMAIN st.map
          THEN MatchStrainsLoop([st EXCEPT !.stats.matched = @ + 1],
                                rest, existing_names, threshold, fuzzy)
          ELSE IF /\ fuzzy
                  /\ existing_names # <<>>
                  /\ Extract(lab_name, existing_names, threshold, 1) # <<>>
          THEN MatchStrainsLoop([st EXCEPT !.stats.fuzzy_matched = @ + 1,
                                           !.stats.matched = @ + 1],
                                rest, existing_names, threshold, fuzzy)
          ELSE IF \E i \in 1..Len(st.table) :
                     st.table[i].nn = lab_name /\ st.table[i].src = "cannlytics"
          THEN MatchStrainsLoop([st EXCEPT !.stats.skipped = @ + 1],
                                rest, existing_names, threshold, fuzzy)
          ELSE MatchStrainsLoop(
                   [table |-> Append(st.table, [nn |-> lab_name, src |-> "cannlytics"]),
                    map |-> DictPut(st.map, lab_name, Len(st.table) + 1),
                    stats |-> [stats EXCEPT !.created = @ + 1]],
                   rest, existing_names, threshold, fuzzy)

\* match_strains(conn, threshold, fuzzy)
MatchStrains(lab_rows, threshold, fuzzy) ==
    LET st0 == [table |-> strains, map |-> ExistingMap(strains, 1, <<>>),
                stats |-> NoStats]
        st == MatchStrainsLoop(st0, LabNames(lab_rows), ExistingNames(strains, fuzzy),
                               threshold, fuzzy)
    IN  /\ run.pc = "idle"
        /\ strains' = st.table
        /\ compCount' = compCount \o [i \in 1..(Len(st.table) - Len(strains)) |-> 0]
        /\ ret' = [op |-> "match_strains",
                   arg |-> [rows |-> lab_rows, threshold |-> threshold, fuzzy |-> fuzzy,
                            before |-> strains],
                   val |-> st.stats, cid |-> 0, again |-> FALSE]
        /\ UNCHANGED <<effects, reports, aliases, run, canonical, mappings>>

(***************************************************************************)
(* SpecLab: strains imported from two sources, then matched against lab    *)
(* results, any number of times.                                           *)
(***************************************************************************)
MaxLabStrains == 2
MaxLabRows == 3

\* 'ab' and 'abc', which score 80 against each other
LabNameUniverse == {<<1, 2>>, <<1, 2, 3>>}

\* the default threshold and one that lets 'abc' match 'ab'
LabThresholds == {80, 90}

LabRows == UNION {[1..n -> LabNameUniverse \cup {<<>>}] : n \in 0..MaxLabRows}

LabInsert ==
    \E nn \in LabNameUniverse, src \in {"a", "b"} :
        Len(strains) < MaxLabStrains /\ InsertStrain(nn, src)

LabMatch ==
    \E lab_rows \in LabRows, t \in LabThresholds, fuzzy \in BOOLEAN :
        MatchStrains(lab_rows, t, fuzzy)

NextLab == LabInsert \/ LabMatch

SpecLab == EmptyStore /\ [][NextLab]_vars

\* the distinct non-empty lab names of a call, and the names stored before it
DistinctLabNames == Range(ret.arg.rows) \ {<<>>}

NamesBefore == {ret.arg.before[i].nn : i \in 1..Len(ret.arg.before)}

RowsAdded == {strains[i] : i \in (Len(ret.arg.before) + 1)..Len(strains)}

\* C22: with fuzzy=False, match_strains matches a distinct non-empty lab name
\* exactly when it equals the normalized_name of a strain already stored, every
\* other lab name gets a new strains row of source 'cannlytics', fuzzy_matched
\* stays 0, and matched + created + skipped is the number of distinct non-empty
\* lab names.
C22_ExactOnlyWithoutFuzzy ==
    (ret.op = "match_strains" /\ ~ret.arg.fuzzy) =>
        /\ ret.val.fuzzy_matched = 0
        /\ ret.val.matched = Cardinality(DistinctLabNames \cap NamesBefore)
        /\ ret.val.created = Cardinality(DistinctLabNames \ NamesBefore)
        /\ ret.val.matched + ret.val.created + ret.val.skipped
             = Cardinality(DistinctLabNames)
        /\ SubSeq(strains, 1, Len(ret.arg.before)) = ret.arg.before
        /\ Len(strains) = Len(ret.arg.before) + ret.val.created
        /\ RowsAdded = {[nn |-> n, src |-> "cannlytics"] :
                           n \in DistinctLabNames \ NamesBefore}

\* C22 witness: a call without fuzzy matching whose lab results repeat a name,
\* match one stored name exactly and create a row for a name that scores at or
\* above the threshold against a stored one.
C22_Witness ==
    /\ ret.op = "match_strains" /\ ~ret.arg.fuzzy
    /\ Cardinality(DistinctLabNames) < Len(ret.arg.rows)
    /\ ret.val.matched >= 1
    /\ \E n \in DistinctLabNames \ NamesBefore, m \in NamesBefore :
         /\ ScoreAtLeast(Ratio(n, m), ret.arg.threshold)
         /\ [nn |-> n, src |-> "cannlytics"] \in RowsAdded

(***************************************************************************)
(* SpecCrash: run_deduplication killed between two cluster merges.  Every  *)
(* merge_strain_cluster call commits, so the rows written so far stay.     *)
(***************************************************************************)
MaxCrashStrains == 4

\* 'ab', 'abc' and 'gh', 'ghi': two clusters at either threshold
CrashNames == {<<1, 2>>, <<1, 2, 3>>, <<7, 8>>, <<7, 8, 9>>}

\* the process dies inside run_deduplication after run.i - 1 merges
RunKill ==
    /\ run.pc = "merging"
    /\ ret' = [op |-> "killed", arg |-> run.threshold, val |-> run.i - 1, cid |-> 0,
               again |-> FALSE]
    /\ run' = IdleRun
    /\ UNCHANGED <<strains, compCount, effects, reports, aliases, canonical, mappings>>

CrashInsert ==
    \E nn \in CrashNames : Len(strains) < MaxCrashStrains /\ InsertStrain(nn, "a")

NextCrash ==
    \/ CrashInsert
    \/ DedupComposition
    \/ DedupRunStart
    \/ RunMerge
    \/ RunFinish
    \/ RunKill

SpecCrash == EmptyStore /\ [][NextCrash]_vars

\* the alias table after merging clusters[from..] in order, starting from rows
RECURSIVE MergedFrom(_, _, _)
MergedFrom(rows, clusters, from) ==
    IF from > Len(clusters) THEN rows
    ELSE MergedFrom(MergeResult(rows, clusters[from]).aliases, clusters, from + 1)

\* the clusters a run at the threshold of the killed run finds in the store
ClustersOfKilledRun == FindDuplicateClustersIn(strains, ret.arg, LimitPerQuery)

\* a re-run from the first cluster ends with the table the killed run would
\* have ended with had it gone on from its next cluster
ResumeEqualsUninterrupted ==
    MergedFrom(aliases, ClustersOfKilledRun, 1)
        = MergedFrom(aliases, ClustersOfKilledRun, ret.val + 1)

AliasIdsUnique ==
    \A a \in AliasRows :
        /\ CopiesIn(a, aliases) = 1
        /\ \A b \in AliasRows : a.alias_strain_id = b.alias_strain_id => a = b

\* C23: when run_deduplication is killed after any number of completed cluster
\* merges, every strain is the alias of at most one row, no canonical of a row
\* is itself an alias, and a re-run over the unchanged store ends with the
\* alias table the killed run would have ended with.
C23_KilledRunValidAndResumable ==
    ret.op = "killed" =>
        /\ AliasIdsUnique
        /\ \A a \in AliasRows, b \in AliasRows :
               a.canonical_strain_id # b.alias_strain_id
        /\ ResumeEqualsUninterrupted

(***************************************************************************)
(* consumer_import.py with ids the caller does not check.  Every caller    *)
(* opens its connection with init_db, which sets PRAGMA foreign_keys=ON:   *)
(* effect_reports.strain_id REFERENCES strains(id), and INSERT OR IGNORE   *)
(* ignores a UNIQUE conflict, not a foreign-key failure, so the INSERT of  *)
(* a report for an absent strain raises sqlite3.IntegrityError.  Nothing   *)
(* in consumer_import.py catches it.  canonical_id is only used to look up *)
(* the category of a new effects row ("other" when absent), which is not   *)
(* part of the store modelled here.                                        *)
(***************************************************************************)
\* import_effects_for_strain up to its commit or to the statement that raises;
\* the effects row of the first effect is written before that statement
ImportEffectsResult(table, rows, strain_id, effs, source) ==
    IF strain_id \notin StrainIds /\ effs # <<>>
    THEN [raised |-> TRUE,
          effects |-> EnsureEffectExists(table, effs[1].canonical_name).effects,
          reports |-> rows, inserted |-> 0]
    ELSE LET st == ImportLoop([effects |-> table, reports |-> rows, inserted |-> 0],
                              strain_id, effs, source)
         IN  [raised |-> FALSE, effects |-> st.effects, reports |-> st.reports,
              inserted |-> st.inserted]

\* import_effects_for_strain(conn, strain_id, effects, source) for any strain_id.
\* No caller catches the exception: the effects row pending when the call
\* raises is never committed.
ImportEffectsCall(strain_id, effs, source) ==
    LET res == ImportEffectsResult(effects, reports, strain_id, effs, source)
    IN  /\ run.pc = "idle"
        /\ effects' = IF res.raised THEN effects ELSE res.effects
        /\ reports' = res.reports
        /\ ret' = [op |-> "import_call",
                   arg |-> [strain_id |-> strain_id, effects |-> effs, source |-> source],
                   val |-> [raised |-> res.raised, inserted |-> res.inserted],
                   cid |-> 0, again |-> FALSE]
        /\ UNCHANGED <<strains, compCount, aliases, run, canonical, mappings>>

\* for item in batch: count = import_effects_for_strain(...); stats[...] += ...
RECURSIVE BatchLoop(_, _)
BatchLoop(st, batch) ==
    IF batch = <<>> THEN st
    ELSE LET item == Head(batch)
             res == ImportEffectsResult(st.effects, st.reports, item.strain_id,
                                        item.effects, item.source)
         IN  IF res.raised
             THEN [st EXCEPT !.raised = TRUE]
             ELSE BatchLoop(
                      [effects |-> res.effects, reports |-> res.reports,
                       raised |-> FALSE,
                       stats |-> [strains_processed |-> st.stats.strains_processed + 1,
                                  effects_imported |-> st.stats.effects_imported + res.inserted,
                                  skipped |-> st.stats.skipped
                                                + Len(item.effects) - res.inserted]],
                      Tail(batch))

\* import_consumer_batch(conn, batch); the items before one that raises are
\* committed, each by its own import_effects_for_strain call
ImportConsumerBatch(batch) ==
    LET st == BatchLoop([effects |-> effects, reports |-> reports, raised |-> FALSE,
                         stats |-> [strains_processed |-> 0, effects_imported |-> 0,
                                    skipped |-> 0]],
                        batch)
    IN  /\ run.pc = "idle"
        /\ effects' = st.effects
        /\ reports' = st.reports
        /\ ret' = [op |-> "batch", arg |-> batch,
                   val |-> [raised |-> st.raised, stats |-> st.stats],
                   cid |-> 0, again |-> FALSE]
        /\ UNCHANGED <<strains, compCount, aliases, run, canonical, mappings>>

(***************************************************************************)
(* SpecImport: imports for strain 1, which is stored, and strain 2, which  *)
(* is not, directly and in batches, and LLM classification of the effects  *)
(* the imports leave.                                                      *)
(***************************************************************************)
MaxBatch == 2

\* strain ids a caller passes: 1 is stored, 2 is not
ImportStrainIds == {1, 2}

ImportSources == {"leafly", "allbud"}

\* "ab" and "bb"
ImportNames == {<<97, 98>>, <<98, 98>>}

\* canonical ids a caller passes: 1 is seeded, 9 is not
ImportCanonicalIds == {1, 9}

ImportEffect(n, c, v) == [canonical_id |-> c, canonical_name |-> n, votes |-> v]

\* no effect, one effect with 0 or 1 votes, one with an unseeded canonical id,
\* or "ab" followed by either effect
ImportLists ==
    {<<>>}
    \cup {<<ImportEffect(n, 1, {v})>> : n \in ImportNames, v \in {0, 1}}
    \cup {<<ImportEffect(n, 9, {0})>> : n \in ImportNames}
    \cup {<<ImportEffect(<<97, 98>>, 1, {0}), ImportEffect(m, 1, {0})>> : m \in ImportNames}

BatchItems ==
    {[strain_id |-> s, source |-> "allbud", effects |-> <<ImportEffect(n, 1, {0})>>] :
        s \in ImportStrainIds, n \in ImportNames}

Batches == UNION {[1..n -> BatchItems] : n \in 1..MaxBatch}

\* replies about "ab": mapped to "a-b", or to "xx", which is no canonical name
ImportReplies ==
    {[ok |-> TRUE, items |-> <<<<(<<97, 98>>), v>>>>] : v \in {<<97, 45, 98>>, <<120, 120>>}}

\* one strain and the seeded taxonomy
ImportStore ==
    /\ strains = <<[nn |-> <<1, 2>>, src |-> "a"]>>
    /\ compCount = <<0>>
    /\ effects = <<>>
    /\ reports = {}
    /\ aliases = EmptyBag
    /\ run = IdleRun
    /\ ret = NoRet
    /\ canonical = ClassifyTaxonomy
    /\ mappings = <<>>

ImportCall ==
    \E s \in ImportStrainIds, effs \in ImportLists, src \in ImportSources :
        ImportEffectsCall(s, effs, src)

ImportBatch == \E batch \in Batches : ImportConsumerBatch(batch)

ImportLlm == \E reply \in ImportReplies : ClassifyEffectsLlm(reply)

NextImport == ImportCall \/ ImportBatch \/ ImportLlm

SpecImport == ImportStore /\ [][NextImport]_vars

\* the items of a batch that name an absent strain, and their effects
MissingStrainItems(batch) ==
    {i \in 1..Len(batch) : batch[i].strain_id \notin StrainIds}

RECURSIVE EffectsOfItems(_, _)
EffectsOfItems(batch, S) ==
    IF S = {} THEN 0
    ELSE LET i == CHOOSE j \in S : TRUE
         IN  Len(batch[i].effects) + EffectsOfItems(batch, S \ {i})

\* the items of an LLM reply whose value is neither JUNK nor a canonical name
UnknownReplyItems(items) ==
    {i \in 1..Len(items) : items[i][2] # Junk /\ ~CanonicalHas(canonical, items[i][2])}

\* C25: a missing foreign lookup is never fatal.  An import that names an
\* absent strain does not raise, inserts no row for it and leaves it out of the
\* returned count; a batch goes through all its items and counts the effects of
\* the absent strains as skipped; an LLM reply naming an unknown canonical
\* effect writes no row for it and counts it as failed.
C25_MissingLookupNeverFatal ==
    /\ \A r \in reports : r.strain_id \in StrainIds
    /\ ret.op = "import_call" =>
         /\ ~ret.val.raised
         /\ ret.arg.strain_id \notin StrainIds => ret.val.inserted = 0
    /\ ret.op = "batch" =>
         /\ ~ret.val.raised
         /\ ret.val.stats.strains_processed = Len(ret.arg)
         /\ ret.val.stats.skipped
              >= EffectsOfItems(ret.arg, MissingStrainItems(ret.arg))
    /\ (ret.op = "llm" /\ ret.val.llm_mapped + ret.val.llm_failed + ret.val.llm_junk > 0) =>
         /\ ret.val.llm_failed = Cardinality(UnknownReplyItems(ret.arg.items))
         /\ \A i \in 1..Len(mappings) : mappings[i].canonical_id \subseteq CanonicalIdsOf

(***************************************************************************)
(* Claims about import_effects_for_strain.                                 *)
(***************************************************************************)
ReportTriple(r) == <<r.strain_id, r.effect_id, r.source>>

\* the triples an import call was about, by the ids its effects have once the
\* call has made sure they exist
ImportedTriples(call) ==
    {<<call.strain_id, EffectId(effects', call.effects[k].canonical_name), call.source>> :
        k \in 1..Len(call.effects)}

\* C24: an import_effects_for_strain call for a stored strain leaves at most
\* one effect_reports row per (strain_id, effect_id, source); a triple already
\* stored keeps its row, report_count included, and gets no second one; a
\* triple not yet stored, such as a stored effect under another source, gets a
\* row of its own; the call does not raise and returns the number of rows it
\* added.
C24_ImportOncePerTriple ==
    [][(ret'.op = "import_call" /\ ret'.arg.strain_id \in StrainIds) =>
          /\ ~ret'.val.raised
          /\ \A r \in reports', q \in reports' :
                 ReportTriple(r) = ReportTriple(q) => r = q
          /\ reports \subseteq reports'
          /\ {ReportTriple(r) : r \in reports' \ reports}
               = ImportedTriples(ret'.arg) \ {ReportTriple(r) : r \in reports}
          /\ ret'.val.inserted = Cardinality(reports' \ reports)]_vars

\* C24 witness: a re-import with another report_count added nothing, over a
\* table that holds the effect under two sources; the stored count is kept.
C24_Witness ==
    /\ ret.op = "import_call" /\ ret.val.inserted = 0 /\ Len(ret.arg.effects) = 1
    /\ \E r \in reports, q \in reports :
         /\ effects[r.effect_id] = ret.arg.effects[1].canonical_name
         /\ r.source = ret.arg.source
         /\ r.report_count # ret.arg.effects[1].votes
         /\ q.effect_id = r.effect_id /\ q.source # r.source

(***************************************************************************)
(* Claims about the clusters as connected components.                      *)
(***************************************************************************)
\* b is one of the at most limit best matches of a: sorted after a, scoring
\* >= threshold, with fewer than limit later names ahead of it (a better score,
\* or the same score and an earlier place in the sorted list)
IsBestMatch(a, b, threshold, limit) ==
    /\ b \in ForwardMatches(a, threshold)
    /\ Cardinality({c \in ForwardMatches(a, threshold) :
                       \/ ScoreGreater(Ratio(a, c), Ratio(a, b))
                       \/ /\ ~ScoreGreater(Ratio(a, b), Ratio(a, c))
                          /\ LexLess(c, b)}) < limit

Linked(a, b, threshold, limit) ==
    IsBestMatch(a, b, threshold, limit) \/ IsBestMatch(b, a, threshold, limit)

\* the names reachable from those of S along links
RECURSIVE ReachableFrom(_, _, _)
ReachableFrom(S, threshold, limit) ==
    LET T == S \cup {b \in StoreNames : \E a \in S : Linked(a, b, threshold, limit)}
    IN  IF T = S THEN S ELSE ReachableFrom(T, threshold, limit)

Components(threshold, limit) ==
    {ReachableFrom({a}, threshold, limit) : a \in StoreNames}

\* C26: find_duplicate_clusters returns exactly the connected components with
\* two or more names of the graph that links each sorted name to its at most
\* limit_per_query best matches scoring >= threshold among the later names;
\* every cluster lists each of its names once, and no name is in two clusters.
C26_ClustersAreComponents ==
    ret.op = "find" =>
        /\ {Range(ret.val[k]) : k \in 1..Len(ret.val)}
             = {C \in Components(ret.arg, LimitPerQuery) : Cardinality(C) >= 2}
        /\ \A k \in 1..Len(ret.val) : Len(ret.val[k]) = Cardinality(Range(ret.val[k]))
        /\ \A k \in 1..Len(ret.val), l \in 1..Len(ret.val) :
               k # l => Range(ret.val[k]) \cap Range(ret.val[l]) = {}

\* C26 witness: a cluster holding two names that are no match of each other,
\* next to a stored name that is in no cluster.
C26_Witness ==
    /\ ret.op = "find"
    /\ \E a \in StoreNames, b \in StoreNames :
         /\ InSameCluster(ret.val, a, b)
         /\ ~ScoreAtLeast(Ratio(a, b), ret.arg)
    /\ \E a \in StoreNames :
         \A k \in 1..Len(ret.val) : a \notin Range(ret.val[k])

(***************************************************************************)
(* SpecFuzzy: map_effect_name on labels near canonical names and near      *)
(* synonyms.  fuzz.ratio of 'abc' and 'abcd' is 85.7, of 'ab' and 'abc' 80. *)
(***************************************************************************)
MaxFuzzyCanonical == 2

\* "abc", "abd"
FuzzyNames == {<<97, 98, 99>>, <<97, 98, 100>>}

\* [], ["xyz"], ["abcd"]
FuzzySynonymLists == {<<>>, <<<<120, 121, 122>>>>, <<<<97, 98, 99, 100>>>>}

FuzzyRows ==
    {[name |-> n, category |-> "positive", synonyms |-> syns] :
        n \in FuzzyNames, syns \in FuzzySynonymLists}

FuzzyTaxonomies ==
    {t \in UNION {[1..n -> FuzzyRows] : n \in 1..MaxFuzzyCanonical} :
        \A i \in 1..Len(t), j \in 1..Len(t) :
            i # j => /\ t[i].name # t[j].name
                     /\ Range(t[i].synonyms) \cap Range(t[j].synonyms) = {}}

\* "abc", "ABCD ", "abcd", "ab", "xyz", "xyzw", "XYZW", "abdc", "zz", "abcde"
FuzzyLabels ==
    {<<97, 98, 99>>, <<65, 66, 67, 68, 32>>, <<97, 98, 99, 100>>, <<97, 98>>,
     <<120, 121, 122>>, <<120, 121, 122, 119>>, <<88, 89, 90, 87>>,
     <<97, 98, 100, 99>>, <<122, 122>>, <<97, 98, 99, 100, 101>>}

FuzzyMap == \E name \in FuzzyLabels : MapEffectName(name)

NextFuzzy == FuzzyMap

SpecFuzzy == SeededStore(FuzzyTaxonomies) /\ [][NextFuzzy]_vars

\* the keys of the lookup: canonical names and lowercased, trimmed synonyms
LookupKeySet ==
    {canonical[y].name : y \in CanonicalIdsOf}
    \cup UNION {{Strip(Lower(syn)) : syn \in Range(canonical[y].synonyms)} :
                 y \in CanonicalIdsOf}

IsLookupKey(label) ==
    HyphenatedForm(label) \in LookupKeySet \/ Strip(Lower(label)) \in LookupKeySet

\* the effects whose canonical name scores >= 85 against the hyphenated label
CloseCanonicals(label) ==
    {y \in CanonicalIdsOf : ScoreAtLeast(Ratio(HyphenatedForm(label), canonical[y].name), 85)}

\* some synonym scores >= 85 against the hyphenated label
CloseToSynonym(label) ==
    \E y \in CanonicalIdsOf : \E syn \in Range(canonical[y].synonyms) :
        ScoreAtLeast(Ratio(HyphenatedForm(label), Strip(Lower(syn))), 85)

CleaningSummary ==
    LET mapped == Cardinality({i \in 1..Len(mappings) : mappings[i].canonical_id # {}})
        junk == Cardinality({i \in 1..Len(mappings) : mappings[i].canonical_id = {}})
        total == Len(effects)
    IN  [total_raw_effects |-> total, mapped_to_canonical |-> mapped,
         classified_as_junk |-> junk, still_unmapped |-> total - mapped - junk]

\* C28: classify_effects_llm creates effect_mappings rows only for raw names
\* that are in the effects table and had no row when the stage started,
\* whatever keys the reply holds; so still_unmapped of the cleaning summary is
\* never negative.
C28_LlmRowsOnlyForUnmappedEffects ==
    [][ret'.op = "llm" =>
          /\ \A i \in (Len(mappings) + 1)..Len(mappings') :
                 /\ mappings'[i].raw_name \in Range(effects)
                 /\ \A j \in 1..Len(mappings) :
                        mappings[j].raw_name # mappings'[i].raw_name
          /\ CleaningSummary'.still_unmapped >= 0]_vars

(***************************************************************************)
(* The pipelines that change effect_reports: consumer_pipeline.py and      *)
(* review_pipeline.py run_pipeline, cleaning.py run_cleaning_pipeline.     *)
(***************************************************************************)
\* the rows as compute_confidence_scores(conn) leaves them
ConfidenceScored(rows) ==
    LET max_votes == MaxVotesOf(rows)
    IN  {[r EXCEPT !.confidence =
              RowConfidence(SourceCount(rows, r.strain_id, r.effect_id),
                            r.report_count, max_votes)] : r \in rows}

\* get_priority_strains: strains with compositions and no effect report
PriorityStrains(rows) ==
    {id \in StrainIds : compCount[id] > 0 /\ ~\E r \in rows : r.strain_id = id}

\* map_effects_batch and the import-ready list: one item per mappable name,
\* votes = votes_map.get(original_name, 0)
RECURSIVE ImportReady(_, _)
ImportReady(scraped, lookup) ==
    IF scraped = <<>> THEN <<>>
    ELSE LET m == MapEffectNameIn(Head(scraped).name, lookup)
         IN  IF m = {} THEN ImportReady(Tail(scraped), lookup)
             ELSE LET d == CHOOSE x \in m : TRUE
                  IN  <<[canonical_id |-> d.canonical_id,
                         canonical_name |-> d.canonical_name,
                         votes |-> Head(scraped).votes]>>
                      \o ImportReady(Tail(scraped), lookup)

\* the loop of run_pipeline over the priority strains, in id order; scrape[id]
\* is what _scrape_strain returned (None is {}), done the ids of the progress file
RECURSIVE ConsumerLoop(_, _, _, _, _, _)
ConsumerLoop(st, ids, scrape, done, lookup, source) ==
    IF ids = {} THEN st
    ELSE LET id == CHOOSE i \in ids : \A j \in ids : i <= j
             rest == ids \ {id}
         IN  IF id \in done
             THEN ConsumerLoop([st EXCEPT !.stats.skipped = @ + 1],
                               rest, scrape, done, lookup, source)
             ELSE IF scrape[id] = {}
             THEN ConsumerLoop([st EXCEPT !.stats.errors = @ + 1],
                               rest, scrape, done, lookup, source)
             ELSE LET scraped == CHOOSE s \in scrape[id] : TRUE
                      import_effects == ImportReady(scraped, lookup)
                      done_import == ImportLoop([effects |-> st.effects, reports |-> st.reports,
                                                 inserted |-> 0],
                                                id, import_effects, source)
                  IN  IF import_effects = <<>>
                      THEN ConsumerLoop([st EXCEPT !.stats.scraped = @ + 1],
                                        rest, scrape, done, lookup, source)
                      ELSE ConsumerLoop(
                               [effects |-> done_import.effects,
                                reports |-> done_import.reports,
                                stats |-> [st.stats EXCEPT
                                             !.scraped = @ + 1,
                                             !.mapped = @ + Len(import_effects),
                                             !.imported = @ + done_import.inserted]],
                               rest, scrape, done, lookup, source)

\* consumer_pipeline.run_pipeline(db_path, source): scrape, map and import
\* every priority strain, then compute_confidence_scores
ConsumerRunPipeline(scrape, done, source) ==
    LET ids == PriorityStrains(reports)
        st == ConsumerLoop([effects |-> effects, reports |-> reports,
                            stats |-> [total |-> Cardinality(ids), scraped |-> 0,
                                       mapped |-> 0, imported |-> 0, skipped |-> 0,
                                       errors |-> 0]],
                           ids, scrape, done, BuildEffectLookup(canonical), source)
    IN  /\ run.pc = "idle"
        /\ effects' = st.effects
        /\ reports' = ConfidenceScored(st.reports)
        /\ ret' = [op |-> "consumer_pipeline", arg |-> source,
                   val |-> [imported |-> st.stats.imported,
                            confidence_updated |-> Cardinality(st.reports),
                            stats |-> st.stats],
                   cid |-> 0, again |-> FALSE]
        /\ UNCHANGED <<strains, compCount, aliases, run, canonical, mappings>>

\* SOURCE of review_pipeline.py
ReviewSource == "leafly-reviews"

\* build_name_mapping: the first strain of that name, {} when there is none
NameMapGet(strain_name) ==
    LET ids == {i \in StrainIds : strains[i].nn = strain_name}
    IN  IF ids = {} THEN {} ELSE {CHOOSE i \in ids : \A j \in ids : i <= j}

\* review_pipeline.run_pipeline for the reviews of one strain name: aggregated
\* is what aggregate_strain_effects made of them, a list of (name, count)
ReviewRunPipeline(strain_name, aggregated) ==
    LET strain_id == NameMapGet(strain_name)
        import_effects == ImportReady(aggregated, BuildEffectLookup(canonical))
        st == IF strain_id = {} \/ import_effects = <<>>
              THEN [effects |-> effects, reports |-> reports, inserted |-> 0]
              ELSE ImportLoop([effects |-> effects, reports |-> reports, inserted |-> 0],
                              CHOOSE i \in strain_id : TRUE, import_effects, ReviewSource)
    IN  /\ run.pc = "idle"
        /\ effects' = st.effects
        /\ reports' = ConfidenceScored(st.reports)
        /\ ret' = [op |-> "review_pipeline", arg |-> strain_name,
                   val |-> [imported |-> st.inserted,
                            confidence_updated |-> Cardinality(st.reports)],
                   cid |-> 0, again |-> FALSE]
        /\ UNCHANGED <<strains, compCount, aliases, run, canonical, mappings>>

\* seed_canonical_effects: INSERT OR IGNORE of every effect of CANONICAL_EFFECTS
RECURSIVE SeedCanonicalEffects(_, _)
SeedCanonicalEffects(rows, taxonomy) ==
    IF taxonomy = <<>> THEN rows
    ELSE SeedCanonicalEffects(
             IF CanonicalHas(rows, Head(taxonomy).name) THEN rows
             ELSE Append(rows, Head(taxonomy)),
             Tail(taxonomy))

\* for cluster in clusters: merge_strain_cluster(conn, cluster)
RECURSIVE MergeClusters(_, _)
MergeClusters(rows, clusters) ==
    IF clusters = <<>> THEN rows
    ELSE MergeClusters(MergeResult(rows, Head(clusters)).aliases, Tail(clusters))

\* the string "null"
NullName == <<110, 117, 108, 108>>

\* DELETE FROM effect_reports WHERE effect_id IN
\*   (SELECT id FROM effects WHERE name = 'null')
PurgeNullReports(rows, table) == {r \in rows : table[r.effect_id] # NullName}

\* run_cleaning_pipeline(conn, config): llm is FALSE when skip_llm is set or
\* no api key is given, dedup is {} when skip_dedup is set and
\* {dedup_threshold} otherwise.  Steps 1 and 3 to 7; step 2 writes molecules.
RunCleaningPipeline(taxonomy, llm, reply, dedup) ==
    LET seeded == SeedCanonicalEffects(canonical, taxonomy)
        zero == [llm_mapped |-> 0, llm_junk |-> 0, llm_failed |-> 0]
        rule == RuleBasedLoop(
                    [rows |-> mappings,
                     stats |-> [exact_matches |-> 0, synonym_matches |-> 0,
                                length_filtered |-> 0, unmatched |-> 0]],
                    UnmappedNames(effects, mappings), BuildSynonymMap(seeded), seeded)
        unmapped_names == UnmappedNames(effects, rule.rows)
        after_llm == IF ~llm \/ unmapped_names = <<>> \/ ~reply.ok THEN rule.rows
                     ELSE LlmLoop([rows |-> rule.rows, stats |-> zero],
                                  reply.items, seeded).rows
        merged == IF dedup = {} THEN aliases
                  ELSE MergeClusters(aliases,
                           FindDuplicateClustersIn(strains, CHOOSE t \in dedup : TRUE,
                                                   LimitPerQuery))
        kept == PurgeNullReports(reports, effects)
    IN  /\ run.pc = "idle"
        /\ canonical' = seeded
        /\ mappings' = after_llm
        /\ aliases' = merged
        /\ reports' = kept
        /\ ret' = [op |-> "cleaning", arg |-> [llm |-> llm, dedup |-> dedup],
                   val |-> [null_reports_purged |-> Cardinality(reports) - Cardinality(kept),
                            rule_based |-> rule.stats],
                   cid |-> 0, again |-> FALSE]
        /\ UNCHANGED <<strains, compCount, effects, run>>

(***************************************************************************)
(* SpecPipeline: the three pipelines and direct imports over a store of    *)
(* two strains, "ab" with compositions and "abc" without.                  *)
(***************************************************************************)
MaxPipelineReports == 3

PipelineStore ==
    /\ strains = <<[nn |-> <<1, 2>>, src |-> "a"], [nn |-> <<1, 2, 3>>, src |-> "a"]>>
    /\ compCount = <<1, 0>>
    /\ effects = <<>>
    /\ reports = {}
    /\ aliases = EmptyBag
    /\ run = IdleRun
    /\ ret = NoRet
    /\ canonical = <<>>
    /\ mappings = <<>>

\* what a caller of import_effects_for_strain hands over: "null" with two
\* votes or "ab" with one
PipelineLists ==
    {<<ImportEffect(NullName, 1, {2})>>, <<ImportEffect(<<97, 98>>, 1, {1})>>}

\* what a site or the reviews yield for a strain: "ab" with two votes, "BB"
\* with one vote, or "zz", which maps to nothing
Scrapes ==
    {<<[name |-> <<97, 98>>, votes |-> {2}]>>, <<[name |-> <<66, 66>>, votes |-> {1}]>>,
     <<[name |-> <<122, 122>>, votes |-> {1}]>>}

ConsumerSources == {"allbud"}

\* "ab", which is stored, and "gh", which is not
ReviewNames == {<<1, 2>>, <<7, 8>>}

\* the reply of the one LLM batch: failed, or "null" classified as JUNK
CleaningReplies ==
    {[ok |-> FALSE, items |-> <<>>], [ok |-> TRUE, items |-> <<<<NullName, Junk>>>>]}

CleaningThresholds == {80, 90}

PipelineImport ==
    \E s \in StrainIds, effs \in PipelineLists :
        /\ Cardinality(reports) < MaxPipelineReports
        /\ ImportEffectsCall(s, effs, "leafly")

PipelineConsumer ==
    \E sc \in {{}} \cup {{s} : s \in Scrapes}, done \in {{}, {1}}, source \in ConsumerSources :
        /\ Cardinality(reports) < MaxPipelineReports
        /\ ConsumerRunPipeline([id \in StrainIds |-> sc], done, source)

PipelineReview ==
    \E name \in ReviewNames, aggregated \in {<<>>} \cup Scrapes :
        /\ Cardinality(reports) < MaxPipelineReports
        /\ ReviewRunPipeline(name, aggregated)

PipelineCleaning ==
    \E llm \in BOOLEAN, reply \in CleaningReplies,
       dedup \in {{}} \cup {{t} : t \in CleaningThresholds} :
        /\ llm \/ ~reply.ok
        /\ RunCleaningPipeline(ClassifyTaxonomy, llm, reply, dedup)

NextPipeline == PipelineImport \/ PipelineConsumer \/ PipelineReview \/ PipelineCleaning

SpecPipeline == PipelineStore /\ [][NextPipeline]_vars

\* the pipeline that has just returned inserted or deleted rows
PipelineChangedReports ==
    \/ ret.op \in {"consumer_pipeline", "review_pipeline"} /\ ret.val.imported > 0
    \/ ret.op = "cleaning" /\ ret.val.null_reports_purged > 0

\* C29: when a pipeline that inserted or deleted effect_reports rows has
\* returned (consumer run_pipeline, review run_pipeline, run_cleaning_pipeline
\* with its purge), the stored confidence of every remaining row is the one
\* the aggregator formula gives over the final set of rows.
C29_NoStaleConfidence ==
    PipelineChangedReports => reports = Rescored(FreshlyImported(reports))

\* the two pipelines that end with compute_confidence_scores leave no stale row
ScoringPipelinesFresh ==
    (ret.op \in {"consumer_pipeline", "review_pipeline"} /\ ret.val.imported > 0)
        => reports = Rescored(FreshlyImported(reports))

(***************************************************************************)
(* SpecUnionFind: the parent and rank maps find_duplicate_clusters builds  *)
(* over the names of the store, under _union and _find_root calls in any   *)
(* order.  ret.val holds the maps after the call, ret.arg the call and the *)
(* maps before it.                                                         *)
(***************************************************************************)
MaxUfNames == 5

\* "ab", "abc", "abd", "abe", "abf", "gh", "ghi"
UfNameList ==
    <<(<<1, 2>>), <<1, 2, 3>>, <<1, 2, 4>>, <<1, 2, 5>>, <<1, 2, 6>>, <<7, 8>>, <<7, 8, 9>>>>

\* parent = {n: n for n in names}; rank = {n: 0 for n in names}
InitUnionFind(names) ==
    [parent |-> [n \in Range(names) |-> n], rank |-> [n \in Range(names) |-> 0]]

UnionFindStore ==
    /\ strains = [i \in 1..MaxUfNames |-> [nn |-> UfNameList[i], src |-> "a"]]
    /\ compCount = [i \in 1..MaxUfNames |-> 0]
    /\ effects = <<>>
    /\ reports = {}
    /\ aliases = EmptyBag
    /\ run = IdleRun
    /\ canonical = <<>>
    /\ mappings = <<>>
    /\ ret = [op |-> "names", arg |-> <<>>, val |-> InitUnionFind(FetchNames(strains)),
              cid |-> 0, again |-> FALSE]

\* _union(parent, rank, a, b)
UnionCall(a, b) ==
    /\ ret' = [op |-> "union",
               arg |-> [a |-> a, b |-> b, parent |-> ret.val.parent, rank |-> ret.val.rank],
               val |-> Union(ret.val, a, b), cid |-> 0, again |-> FALSE]
    /\ UNCHANGED <<strains, compCount, effects, reports, aliases, run, canonical, mappings>>

\* root = _find_root(parent, name)
FindRootCall(name) ==
    /\ ret' = [op |-> "find_root",
               arg |-> [a |-> name, b |-> FindRoot(ret.val.parent, name).root,
                        parent |-> ret.val.parent, rank |-> ret.val.rank],
               val |-> [parent |-> FindRoot(ret.val.parent, name).parent,
                        rank |-> ret.val.rank],
               cid |-> 0, again |-> FALSE]
    /\ UNCHANGED <<strains, compCount, effects, reports, aliases, run, canonical, mappings>>

UfUnion == \E a \in DOMAIN ret.val.parent, b \in DOMAIN ret.val.parent : UnionCall(a, b)

UfFindRoot == \E name \in DOMAIN ret.val.parent : FindRootCall(name)

NextUnionFind == UfUnion \/ UfFindRoot

SpecUnionFind == UnionFindStore /\ [][NextUnionFind]_vars

\* the name k parent links above n
RECURSIVE Ancestor(_, _, _)
Ancestor(parent, n, k) == IF k = 0 THEN n ELSE Ancestor(parent, parent[n], k - 1)

\* where the chain of parent links from n stands after as many links as
\* there are names
RootIn(parent, n) == Ancestor(parent, n, Cardinality(DOMAIN parent))

SameSet(parent, x, y) == RootIn(parent, x) = RootIn(parent, y)

\* every parent is a name, and rank strictly increases from a non-root name
\* to its parent
RankedForest(uf) ==
    \A n \in DOMAIN uf.parent :
        /\ uf.parent[n] \in DOMAIN uf.parent
        /\ uf.parent[n] # n => uf.rank[uf.parent[n]] > uf.rank[n]

\* C30: after any sequence of _union and _find_root calls the parent map is
\* a forest in which rank strictly increases from every non-root name to
\* its parent, so the chain of links from every name ends in a root;
\* _find_root returns the root the name had and its path compression leaves
\* every name's root and every rank as they were; _union(a, b) merges
\* exactly the sets of a and b and leaves every other set unchanged.
C30_UnionFindForest ==
    LET names == DOMAIN ret.val.parent
        before == ret.arg.parent
        after == ret.val.parent
        InAB(x) == SameSet(before, x, ret.arg.a) \/ SameSet(before, x, ret.arg.b)
    IN  /\ RankedForest(ret.val)
        /\ \A n \in names : after[RootIn(after, n)] = RootIn(after, n)
        /\ ret.op = "find_root" =>
             /\ ret.arg.b = RootIn(before, ret.arg.a)
             /\ \A n \in names : RootIn(after, n) = RootIn(before, n)
             /\ ret.val.rank = ret.arg.rank
        /\ ret.op = "union" =>
             \A x \in names, y \in names :
                 SameSet(after, x, y) <=> (SameSet(before, x, y) \/ (InAB(x) /\ InAB(y)))

\* C30 witness: a _find_root call has shortened a path in a tree whose root
\* has rank 2, with a second root beside it.
C30_Witness ==
    /\ ret.op = "find_root"
    /\ ret.val.parent # ret.arg.parent
    /\ \E r \in DOMAIN ret.val.parent, q \in DOMAIN ret.val.parent :
         /\ ret.val.parent[r] = r /\ ret.val.rank[r] = 2
         /\ ret.val.parent[q] = q /\ q # r

====
